---- MODULE Spec2Model ----
(***************************************************************************)
(* GiggleGlide backend: the personalized recommendation engine.            *)
(*                                                                         *)
(* The model follows PersonalizationService (services/                     *)
(* personalization_service.py), PersonalizationRepository, TagRepository   *)
(* and JokeRepository (database/repositories/) and AIJokeService           *)
(* (services/ai_joke_service.py).                                          *)
(*                                                                         *)
(* Numbers.  Python floats are modelled by scaled integers:                *)
(*   - a tag confidence / interaction weight is counted in tenths,         *)
(*   - a score delta in thousandths,                                       *)
(*   - the learning rate alpha in 1/AlphaScale,                            *)
(*   - a preference score in 1/ScoreScale, ScoreScale being the product    *)
(*     of the three, so that score + alpha*delta*weight is exact,          *)
(*   - a joke rating in hundredths (the code rounds it to 2 decimals),     *)
(*   - time in minutes.                                                    *)
(* Strings that the code builds and inspects character by character (the   *)
(* cache keys) are sequences of tokens.                                    *)
(***************************************************************************)
EXTENDS Integers, Sequences, FiniteSets, TLC

(***************************************************************************)
(* Bounds of the model                                                     *)
(***************************************************************************)
MaxTime == 6
MaxSteps == 3
MaxGenerated == 2
MaxAIJokes == 2
MaxScoreUpdates == 3
MaxCandidates == 4
MaxLimit == 3
MaxRepeats == 7
MaxStarts == 2
MaxStops == 1
MaxJobRuns == 1
MaxJobErrors == 1
MaxInflight == 2
MaxConcurrentSteps == 4
MaxSessionSteps == 6

(***************************************************************************)
(* Program constants                                                       *)
(***************************************************************************)
AlphaScale == 2520
DeltaScale == 1000
WeightScale == 10
ScoreScale == AlphaScale * DeltaScale * WeightScale
RatingScale == 100

ExplorationPct == 10
MinTagConfidence == 5
MaxRecommendations == 50
SimilarityThresholdPct == 30
CollaborativeCap == 20
MinRating == 200
MaxRating == 500
CacheTTL == 5
AIGenerationCooldown == 5
TrendingWindow == 1440
DefaultGenConfidence == 9
ExploreNoise == ScoreScale \div 5

LikeDelta == 30
SkipDelta == -10
ViewDelta == 5

(***************************************************************************)
(* Universe of the model                                                   *)
(***************************************************************************)
\* User ids are strings; a string is a sequence of tokens.
UserA == <<"a">>
UserB == <<"b">>
Users == {UserA, UserB}

Languages == {"en", "es"}
InteractionTypes == {"view", "like", "skip"}
Limits == {1, 2}

\* The tag taxonomy (alembic/versions/004_seed_default_tags.py): id -> row.
TagIds == {"t1", "t2", "t3"}
Tags == [t \in TagIds |->
           CASE t = "t1" -> [category |-> "style", value |-> "observational"]
             [] t = "t2" -> [category |-> "topic", value |-> "work"]
             [] t = "t3" -> [category |-> "tone",  value |-> "silly"]]

SeedJokeIds == {1, 2, 3}
NumSeedJokes == Cardinality(SeedJokeIds)

\* A value standing for the un-awaited coroutine object that
\* get_similar_users_recommendations stores in the score position.
CoroutineObject == -(2 * ScoreScale)

(***************************************************************************)
(* Generic helpers                                                         *)
(***************************************************************************)
Min(a, b) == IF a <= b THEN a ELSE b

\* All orderings of a finite set, as sequences without repetition.
Perms(S) == {f \in [1..Cardinality(S) -> S] : \A i, j \in 1..Cardinality(S) : f[i] = f[j] => i = j}

Take(s, n) == SubSeq(s, 1, Min(n, Len(s)))

RECURSIVE SumOver(_, _)
SumOver(S, f) == IF S = {} THEN 0
                 ELSE LET x == CHOOSE y \in S : TRUE
                      IN f[x] + SumOver(S \ {x}, f)

(***************************************************************************)
(* State                                                                   *)
(***************************************************************************)
VARIABLES
  jokes,             \* jokes table: id -> [language, rating, view_count, like_count, source]
  jokeTags,          \* joke_tags table: set of [joke, tag, confidence]
  interactions,      \* joke_interactions table: set of [user, joke, type, at]
  userTagScores,     \* user_tag_scores table: <<user, tag>> -> [score, interaction_count]
  userStats,         \* user_stats table: user -> [viewed, liked, skipped]
  preferenceCache,   \* PersonalizationService._preference_cache: key -> result
  cacheExpiry,       \* PersonalizationService._cache_expiry: key -> time
  lastAIGeneration,  \* PersonalizationService._last_ai_generation: user -> time
  aiService,         \* whether an AIJokeService was passed to the constructor
  now,               \* datetime.utcnow(), in minutes
  lastCall,          \* the last completed call of the service and its outcome
  aiCalls,           \* history: the invocations of the AI joke generator, in order
  aiStored,          \* history: every generated joke stored by the fallback path
  steps,             \* history: number of calls made so far
  memoryCache,       \* CacheService._memory_cache: key -> cached data
  memoryExpiry,      \* CacheService._cache_expiry: key -> time
  lastResponse,      \* the last response of a route and what it was served from
  tagTable,          \* tags table: set of [id, name, category, value]
  lastCreate,        \* the last create_tag call and its outcome
  running,           \* BackgroundJobManager._running
  jobsMap,           \* BackgroundJobManager._jobs: job name -> task (index in tasks)
  tasks,             \* every asyncio task start() created: [job, pc, cancel_requested]
  stopCalls,         \* every stop() call that got past its guard: [pc, idx, size, task]
  jobStats,          \* BackgroundJobManager._job_stats: job name -> [runs, errors]
  inflight,          \* the calls suspended at an await, each with its local variables
  cacheLog           \* history: user -> the last cache_user_session call, while nothing removed its entry

dbVars == <<jokes, jokeTags, interactions, userTagScores, userStats>>
svcVars == <<preferenceCache, cacheExpiry, lastAIGeneration, aiService>>
routeVars == <<memoryCache, memoryExpiry, lastResponse>>
tagVars == <<tagTable, lastCreate>>
jobVars == <<running, jobsMap, tasks, stopCalls, jobStats>>
auxVars == <<inflight, cacheLog>>
vars == <<jokes, jokeTags, interactions, userTagScores, userStats, preferenceCache, cacheExpiry, lastAIGeneration, aiService, now, lastCall, aiCalls, aiStored, steps,
          memoryCache, memoryExpiry, lastResponse, tagTable, lastCreate,
          running, jobsMap, tasks, stopCalls, jobStats, inflight, cacheLog>>

(***************************************************************************)
(* Tag store: joke tags                                                    *)
(***************************************************************************)
JokeTagRows(jt, j) == {r \in jt : r.joke = j}

\* TagRepository.get_joke_tags: the (tag, confidence) rows of a joke, ordered
\* by confidence descending.  Rows of equal confidence come in an order the
\* database chooses, so the result is one of a set of sequences.
GetJokeTags(jt, j) == {s \in Perms(JokeTagRows(jt, j)) : \A i, k \in 1..Len(s) : i < k => s[i].confidence >= s[k].confidence}

\* TagRepository.add_joke_tag: upsert of the (joke, tag) link.
AddJokeTag(jt, j, t, conf) == {r \in jt : ~(r.joke = j /\ r.tag = t)} \cup {[joke |-> j, tag |-> t, confidence |-> conf]}

\* TagRepository.get_tags_by_category followed by the lookup by value that
\* _get_fallback_recommendations performs: the tag ids of that category whose
\* value is the given name.
TagsByCategoryAndValue(category, name) == {t \in TagIds : Tags[t].category = category /\ Tags[t].value = name}

(***************************************************************************)
(* Preference store: the preference update rule                            *)
(***************************************************************************)
ScoreRow(scores, u, t) ==
  IF <<u, t>> \in DOMAIN scores THEN scores[<<u, t>>] ELSE [score |-> 0, interaction_count |-> 0]

\* A variant of the learning rate that never decays.
MutLearningRate(count) == (3 * AlphaScale) \div 10

\* alpha = min(0.3, 1.0 / (interaction_count + 1)), in 1/AlphaScale.
LearningRate(count) == Min((3 * AlphaScale) \div 10, AlphaScale \div (count + 1))

\* A variant of the clamp that lets the score through unchanged.
MutClampScore(x) == x

\* score = max(-1.0, min(1.0, new_score))
ClampScore(x) == IF Min(ScoreScale, x) >= -ScoreScale THEN Min(ScoreScale, x) ELSE -ScoreScale

\* TagRepository.update_user_tag_score; delta in thousandths, weight in tenths.
UpdateUserTagScore(scores, u, t, delta, weight) ==
  LET row == ScoreRow(scores, u, t)
      new_score == row.score + LearningRate(row.interaction_count) * delta * weight
      updated == [score |-> ClampScore(new_score), interaction_count |-> row.interaction_count + 1]
  IN [k \in (DOMAIN scores) \cup {<<u, t>>} |-> IF k = <<u, t>> THEN updated ELSE scores[k]]

\* score_changes.get(interaction_type, 0), in hundredths.
ScoreChange(type) ==
  CASE type = "like" -> LikeDelta
    [] type = "skip" -> SkipDelta
    [] type = "view" -> ViewDelta
    [] OTHER -> 0

RECURSIVE ApplyTagUpdates(_, _, _, _)
ApplyTagUpdates(scores, u, tagSeq, score_delta) ==
  IF tagSeq = <<>> THEN scores
  ELSE LET r == Head(tagSeq)
           weighted_delta == score_delta * r.confidence
       IN ApplyTagUpdates(UpdateUserTagScore(scores, u, r.tag, weighted_delta, r.confidence), u, Tail(tagSeq), score_delta)

\* PersonalizationRepository.update_preferences_from_interaction: the new
\* user_tag_scores table and the number of tags updated.  The tags of a joke
\* are distinct rows, so the order of the loop does not change the table.
UpdatePreferencesFromInteraction(scores, jt, u, j, type) ==
  LET joke_tags == CHOOSE s \in GetJokeTags(jt, j) : TRUE
      score_delta == ScoreChange(type)
  IN IF joke_tags = <<>> \/ score_delta = 0
     THEN [scores |-> scores, updated_count |-> 0]
     ELSE [scores |-> ApplyTagUpdates(scores, u, joke_tags, score_delta), updated_count |-> Len(joke_tags)]

(***************************************************************************)
(* Joke store                                                              *)
(***************************************************************************)
\* round(n / d, 0) as Python rounds: to the nearest integer, ties to even.
RoundHalfEven(n, d) ==
  LET q == n \div d
      r == n % d
  IN IF 2 * r < d THEN q
     ELSE IF 2 * r > d THEN q + 1
     ELSE IF q % 2 = 0 THEN q ELSE q + 1

\* JokeRepository._update_joke_stats.  The counters are changed first; the
\* rating is then recomputed as round(like_count / view_count * 5, 2).  When
\* the validator rejects the new rating the exception is swallowed, the
\* changed counter stays on the row and the rating keeps its old value
\* (Joke.validate_rating raises for a rating outside [0, 5]).
UpdateJokeStats(jk, j, type) ==
  IF j \notin DOMAIN jk THEN jk
  ELSE LET old == jk[j]
           counted == CASE type = "view" -> [old EXCEPT !.view_count = @ + 1]
                        [] type = "like" -> [old EXCEPT !.like_count = @ + 1]
                        [] OTHER -> old
           rating == RoundHalfEven(counted.like_count * 5 * RatingScale, counted.view_count)
           rated == IF counted.view_count > 0 /\ rating >= 0 /\ rating <= MaxRating
                    THEN [counted EXCEPT !.rating = rating]
                    ELSE counted
       IN [jk EXCEPT ![j] = rated]

\* JokeRepository._update_user_stats (last_active is not modelled: nothing reads it).
UpdateUserStats(us, u, type) ==
  LET old == IF u \in DOMAIN us THEN us[u] ELSE [viewed |-> 0, liked |-> 0, skipped |-> 0]
      new == CASE type = "view" -> [old EXCEPT !.viewed = @ + 1]
               [] type = "like" -> [old EXCEPT !.liked = @ + 1]
               [] type = "skip" -> [old EXCEPT !.skipped = @ + 1]
               [] OTHER -> old
  IN [k \in (DOMAIN us) \cup {u} |-> IF k = u THEN new ELSE us[k]]

\* JokeRepository.mark_as_seen: an invalid type raises; an interaction that
\* already exists for (user, joke, type) is returned unchanged; otherwise the
\* row is added and the joke's and the user's statistics are updated.
MarkAsSeen(ia, jk, us, u, j, type, at) ==
  IF type \notin InteractionTypes
  THEN [raised |-> TRUE, interactions |-> ia, jokes |-> jk, userStats |-> us]
  ELSE IF \E r \in ia : r.user = u /\ r.joke = j /\ r.type = type
  THEN [raised |-> FALSE, interactions |-> ia, jokes |-> jk, userStats |-> us]
  ELSE [raised |-> FALSE,
        interactions |-> ia \cup {[user |-> u, joke |-> j, type |-> type, at |-> at]},
        jokes |-> UpdateJokeStats(jk, j, type),
        userStats |-> UpdateUserStats(us, u, type)]

\* recent_count of get_trending_jokes: interactions of a joke in the window.
RecentCount(ia, j, at, window) == Cardinality({r \in ia : r.joke = j /\ r.at >= at - window})

\* The jokes that get_trending_jokes can select: language-matched jokes with
\* at least one interaction (by any user) inside the time window.
TrendingEligible(jk, ia, language, at, window) ==
  {j \in DOMAIN jk : jk[j].language = language /\ RecentCount(ia, j, at, window) > 0}

\* JokeRepository.get_trending_jokes: the eligible jokes ordered by
\* recent_count descending, cut to limit.  Jokes of equal count come in an
\* order the database chooses, so the result is one of a set of sequences.
GetTrendingJokes(jk, ia, language, at, window, limit) ==
  {Take(s, limit) : s \in {p \in Perms(TrendingEligible(jk, ia, language, at, window)) :
      \A i, k \in 1..Len(p) : i < k => RecentCount(ia, p[i], at, window) >= RecentCount(ia, p[k], at, window)}}

\* BaseRepository.create as _get_fallback_recommendations calls it: a new
\* row with the given text/language/source and the column defaults.
NewJokeRow(language) == [language |-> language, rating |-> 0, view_count |-> 0, like_count |-> 0, source |-> "ai_generated"]

NextJokeId(jk) == Cardinality(DOMAIN jk) + 1

(***************************************************************************)
(* Recommendation scorer                                                   *)
(***************************************************************************)
\* The seen_subquery: jokes for which the user has a view, like or skip row.
SeenJokes(ia, u) == {r.joke : r \in {x \in ia : x.user = u /\ x.type \in {"view", "like", "skip"}}}

\* PersonalizationRepository._get_user_preferences: tag -> score for the
\* user's rows, or the empty dict when the query fails.
GetUserPreferences(scores, u, fails) ==
  IF fails THEN <<>>
  ELSE [t \in {x \in TagIds : <<u, x>> \in DOMAIN scores} |-> scores[<<u, t>>].score]

\* The tag rows of a joke that _get_unseen_jokes_with_tags keeps.
ConfidentTags(jt, j, min_confidence) == {r \in JokeTagRows(jt, j) : r.confidence >= min_confidence}

\* PersonalizationRepository._get_unseen_jokes_with_tags: language-matched
\* jokes the user has not seen, rated at least 2.0, with at least one tag of
\* sufficient confidence; the empty list when the query fails.  (The query's
\* LIMIT 200 exceeds the number of jokes of the model.)
GetUnseenJokesWithTags(jk, jt, ia, u, language, min_confidence, fails) ==
  IF fails THEN {}
  ELSE {j \in DOMAIN jk : /\ jk[j].language = language
                          /\ j \notin SeenJokes(ia, u)
                          /\ jk[j].rating >= MinRating
                          /\ ConfidentTags(jt, j, min_confidence) # {}}

\* PersonalizationRepository._calculate_exploitation_score: the confidence-
\* weighted average of the user's scores for the joke's tags.
CalculateExploitationScore(tagRows, prefs) ==
  IF tagRows = {} \/ DOMAIN prefs = {} THEN 0
  ELSE LET total_score == SumOver(tagRows, [r \in tagRows |-> (IF r.tag \in DOMAIN prefs THEN prefs[r.tag] ELSE 0) * r.confidence])
           total_weight == SumOver(tagRows, [r \in tagRows |-> r.confidence])
       IN IF total_weight > 0 THEN total_score \div total_weight ELSE 0

\* int(limit * (1 - exploration_rate))
ExploitCount(limit) == (limit * (100 - ExplorationPct)) \div 100

\* PersonalizationRepository.get_personalized_recommendations: every list
\* the epsilon-greedy selection can return.  The candidates are sorted by
\* score (equal scores in any order), the first exploit_count are taken as
\* 'exploit', explore_count of the shuffled rest as 'explore' with noise
\* added to the score, and the whole list is shuffled.
ContentRecommendations(jk, jt, ia, scores, u, limit, language, prefsFail, unseenFail) ==
  LET prefs == GetUserPreferences(scores, u, prefsFail)
      unseen == GetUnseenJokesWithTags(jk, jt, ia, u, language, MinTagConfidence, unseenFail)
      score == [j \in unseen |-> CalculateExploitationScore(ConfidentTags(jt, j, MinTagConfidence), prefs)]
      sorted == {p \in Perms(unseen) : \A i, k \in 1..Len(p) : i < k => score[p[i]] >= score[p[k]]}
      exploit_count == ExploitCount(limit)
      explore_count == limit - exploit_count
      Exploit(p) == {[id |-> p[i], score |-> score[p[i]], strategy |-> "exploit"] : i \in 1..Min(exploit_count, Len(p))}
      Remaining(p) == {p[i] : i \in (exploit_count + 1)..Len(p)}
      Explore(p) == IF explore_count > 0 /\ Len(p) > exploit_count
                    THEN LET n == Min(explore_count, Cardinality(Remaining(p)))
                         IN {{[id |-> a[i], score |-> score[a[i]] + noise[i], strategy |-> "explore"] : i \in 1..n} :
                               <<a, noise>> \in {f \in [1..n -> Remaining(p)] : \A i, j \in 1..n : f[i] = f[j] => i = j}
                                                  \X [1..n -> {-ExploreNoise, 0, ExploreNoise}]}
                    ELSE {{}}
  IN IF unseen = {} THEN {<<>>}
     ELSE UNION {UNION {{Take(r, limit) : r \in Perms(Exploit(p) \cup x)} : x \in Explore(p)} : p \in sorted}

\* Scores in hundredths, as the similarity test uses them.
Hundredths(x) == (x * 100) \div ScoreScale

\* cos(prefs1, prefs2) >= threshold, over the tags both users have scored;
\* 0 without common tags or with a zero vector.  The comparison
\* dot / (|p1| |p2|) >= th/100 is made on the squares, split so that no
\* intermediate value leaves the 32-bit range.
SimilarEnough(prefs1, prefs2, thresholdPct) ==
  LET common == (DOMAIN prefs1) \cap (DOMAIN prefs2)
      dot == SumOver(common, [t \in common |-> Hundredths(prefs1[t]) * Hundredths(prefs2[t])])
      sq1 == SumOver(common, [t \in common |-> Hundredths(prefs1[t]) * Hundredths(prefs1[t])])
      sq2 == SumOver(common, [t \in common |-> Hundredths(prefs2[t]) * Hundredths(prefs2[t])])
      th2 == thresholdPct * thresholdPct
      lhs == dot * dot
      q == (sq1 * sq2) \div 10000
      r == (sq1 * sq2) % 10000
  IN IF common = {} \/ sq1 = 0 \/ sq2 = 0 THEN FALSE
     ELSE IF dot < 0 THEN FALSE
     ELSE IF lhs - th2 * q >= th2 THEN TRUE
     ELSE IF lhs - th2 * q < 0 THEN FALSE
     ELSE 10000 * (lhs - th2 * q) >= th2 * r

\* PersonalizationRepository._find_similar_users: the other users whose
\* similarity reaches the threshold; none when the target has no preferences
\* or when a query fails.  (The cut to the 10 most similar users keeps all
\* users of the model.)
FindSimilarUsers(scores, u, thresholdPct, fails) ==
  LET target == GetUserPreferences(scores, u, FALSE)
  IN IF fails \/ DOMAIN target = {} THEN {}
     ELSE {o \in Users \ {u} : /\ DOMAIN GetUserPreferences(scores, o, FALSE) # {}
                               /\ SimilarEnough(target, GetUserPreferences(scores, o, FALSE), thresholdPct)}

LikesBy(ia, similar, j) == Cardinality({r \in ia : r.joke = j /\ r.type = "like" /\ r.user \in similar})

\* PersonalizationRepository.get_similar_users_recommendations, when its
\* query runs: jokes liked by a similar user, language-matched and not seen
\* by the target, ordered by the number of such likes, cut to limit.  The
\* score position holds the coroutine object of the un-awaited
\* _calculate_collaborative_score call.
CollaborativeRecommendations(jk, ia, scores, u, limit, language, similarFail) ==
  LET similar == FindSimilarUsers(scores, u, SimilarityThresholdPct, similarFail)
      cands == {j \in DOMAIN jk : /\ jk[j].language = language
                                  /\ j \notin SeenJokes(ia, u)
                                  /\ LikesBy(ia, similar, j) > 0}
      ordered == {p \in Perms(cands) : \A i, k \in 1..Len(p) : i < k => LikesBy(ia, similar, p[i]) >= LikesBy(ia, similar, p[k])}
  IN IF similar = {} THEN {<<>>}
     ELSE {[i \in 1..Min(limit, Len(p)) |-> [id |-> p[i], score |-> CoroutineObject, strategy |-> "collaborative"]] : p \in ordered}

(***************************************************************************)
(* Diversity ranker                                                        *)
(***************************************************************************)
NoCategory == "none"

\* The ways _ensure_diversity can see the primary category of each joke: the
\* category of the first row of get_joke_tags, NoCategory for a joke without
\* tags.
PrimaryCategories(jt, ids) ==
  {f \in [ids -> {Tags[t].category : t \in TagIds} \cup {NoCategory}] :
     \A j \in ids : IF JokeTagRows(jt, j) = {} THEN f[j] = NoCategory
                    ELSE \E s \in GetJokeTags(jt, j) : f[j] = Tags[s[1].tag].category}

\* The grouping loop: category_groups (a dict) and its keys in insertion order.
RECURSIVE GroupByCategory(_, _, _, _)
GroupByCategory(recs, primary, keys, groups) ==
  IF recs = <<>> THEN [keys |-> keys, groups |-> groups]
  ELSE LET r == Head(recs)
           c == primary[r.id]
       IN IF c = NoCategory THEN GroupByCategory(Tail(recs), primary, keys, groups)
          ELSE IF c \in DOMAIN groups
          THEN GroupByCategory(Tail(recs), primary, keys, [groups EXCEPT ![c] = Append(@, r)])
          ELSE GroupByCategory(Tail(recs), primary, Append(keys, c), [k \in (DOMAIN groups) \cup {c} |-> IF k = c THEN <<r>> ELSE groups[k]])

\* One pass of 'for category in category_keys[:]'.
RECURSIVE DiversityPass(_, _, _, _, _)
DiversityPass(copy, keys, groups, acc, limit) ==
  IF copy = <<>> THEN [keys |-> keys, groups |-> groups, acc |-> acc]
  ELSE LET c == Head(copy)
           has == c \in DOMAIN groups /\ groups[c] # <<>>
           acc1 == IF has THEN Append(acc, Head(groups[c])) ELSE acc
           groups1 == IF has THEN [groups EXCEPT ![c] = Tail(@)] ELSE groups
       IN IF has /\ Len(acc1) >= limit
          THEN [keys |-> keys, groups |-> groups1, acc |-> acc1]
          ELSE IF c \in DOMAIN groups1 /\ groups1[c] = <<>>
          THEN DiversityPass(Tail(copy), SelectSeq(keys, LAMBDA k : k # c), [k \in (DOMAIN groups1) \ {c} |-> groups1[k]], acc1, limit)
          ELSE DiversityPass(Tail(copy), keys, groups1, acc1, limit)

\* 'while len(diverse_recs) < limit and category_groups'
RECURSIVE DiversityLoop(_, _, _, _)
DiversityLoop(keys, groups, acc, limit) ==
  IF Len(acc) < limit /\ DOMAIN groups # {}
  THEN LET r == DiversityPass(keys, keys, groups, acc, limit)
       IN DiversityLoop(r.keys, r.groups, r.acc, limit)
  ELSE acc

\* _ensure_diversity without the category round-robin: the first 'limit' items.
MutEnsureDiversity(recs, limit, primary) ==
  IF Len(recs) <= limit THEN recs ELSE Take(recs, limit)

\* PersonalizationService._ensure_diversity
EnsureDiversity(recs, limit, primary) ==
  IF Len(recs) <= limit THEN recs
  ELSE LET g == GroupByCategory(recs, primary, <<>>, <<>>)
       IN DiversityLoop(g.keys, g.groups, <<>>, limit)

\* The deduplication loop of _combine_recommendations: first occurrence wins.
RECURSIVE UniqueRecs(_, _)
UniqueRecs(recs, seen_joke_ids) ==
  IF recs = <<>> THEN <<>>
  ELSE IF Head(recs).id \in seen_joke_ids THEN UniqueRecs(Tail(recs), seen_joke_ids)
  ELSE <<Head(recs)>> \o UniqueRecs(Tail(recs), seen_joke_ids \cup {Head(recs).id})

\* PersonalizationService._calculate_strategy_breakdown
CalculateStrategyBreakdown(recs) ==
  [s \in {recs[i].strategy : i \in 1..Len(recs)} |-> Cardinality({i \in 1..Len(recs) : recs[i].strategy = s})]

(***************************************************************************)
(* Cache of the service                                                    *)
(***************************************************************************)
FormatInt(n) == CASE n = 0 -> "0" [] n = 1 -> "1" [] n = 2 -> "2" [] n = 3 -> "3" [] n = 4 -> "4" [] n = 5 -> "5" [] n = 6 -> "6" [] n = 7 -> "7" [] n = 8 -> "8" [] n = 9 -> "9"

FormatBool(b) == IF b THEN "True" ELSE "False"

\* cache_key = f"{user_id}_{limit}_{language}_{exclude_seen}"
CacheKey(u, limit, language, exclude_seen) ==
  u \o <<"_", FormatInt(limit), "_", language, "_", FormatBool(exclude_seen)>>

Restrict(f, S) == [k \in S |-> f[k]]

\* The lookup of _get_cached_recommendations: a hit needs the key present
\* and utcnow() < expiry (datetime.min when the expiry is missing).
MutCacheHit(cache, expiry, key, at) == key \in DOMAIN cache /\ key \in DOMAIN expiry /\ at <= expiry[key]

CacheHit(cache, expiry, key, at) == key \in DOMAIN cache /\ key \in DOMAIN expiry /\ at < expiry[key]

\* PersonalizationService._invalidate_user_cache: the keys that start with
\* f"{user_id}_" are removed.
\* A variant that compares the whole key with the user id instead of its prefix.
MutKeysOfUser(cache, u) == {k \in DOMAIN cache : k = u}

KeysOfUser(cache, u) ==
  LET prefix == u \o <<"_">>
  IN {k \in DOMAIN cache : Len(k) >= Len(prefix) /\ SubSeq(k, 1, Len(prefix)) = prefix}

InvalidateUserCache(f, cache, u) == Restrict(f, (DOMAIN f) \ KeysOfUser(cache, u))

\* PersonalizationService._can_generate_ai_jokes
MutCanGenerateAIJokes(last, u, at) == TRUE

CanGenerateAIJokes(last, u, at) == ~(u \in DOMAIN last /\ at - last[u] < AIGenerationCooldown)

(***************************************************************************)
(* AI joke generation                                                      *)
(***************************************************************************)
\* What the generator's response can hold: up to MaxGenerated jokes.  Each
\* has the verdict that moderate_content gives for its text.
GeneratedResponses == UNION {[1..n -> {"safe", "unsafe"}] : n \in 0..MaxGenerated}

\* user_tags of _get_fallback_recommendations: the user's tags of positive
\* score; empty when get_user_tag_scores raises.
PositiveUserTags(scores, u, fails) ==
  IF fails THEN {}
  ELSE {t \in TagIds : <<u, t>> \in DOMAIN scores /\ scores[<<u, t>>].score > 0}

\* AIJokeService.generate_jokes: one GeneratedJoke per joke of the response,
\* carrying the request's tags and language and the default confidence.
GenerateJokes(response, tags, language) ==
  [i \in 1..Len(response) |-> [verdict |-> response[i], tags |-> tags, language |-> language, confidence |-> DefaultGenConfidence, moderated |-> FALSE]]

\* AIJokeService.generate_personalized_jokes: generates from the user's
\* tags and keeps the jokes that moderate_content finds safe.
GeneratePersonalizedJokes(response, userTags, language) ==
  LET jokes_generated == GenerateJokes(response, {<<Tags[t].category, Tags[t].value>> : t \in userTags}, language)
      moderated == [i \in 1..Len(jokes_generated) |-> [jokes_generated[i] EXCEPT !.moderated = TRUE]]
  IN SelectSeq(moderated, LAMBDA g : g.verdict = "safe")

\* AIJokeService.generate_fallback_jokes: generates from its fallback_tags.
GenerateFallbackJokes(response, language) ==
  GenerateJokes(response, {<<"style", "observational">>, <<"tone", "silly">>, <<"topic", "animals">>}, language)

RECURSIVE TagGeneratedJoke(_, _, _, _)
TagGeneratedJoke(jt, j, names, confidence) ==
  IF names = {} THEN jt
  ELSE LET n == CHOOSE x \in names : TRUE
           found == TagsByCategoryAndValue(n[1], n[2])
           jt1 == IF found = {} THEN jt ELSE AddJokeTag(jt, j, CHOOSE t \in found : TRUE, confidence)
       IN TagGeneratedJoke(jt1, j, names \ {n}, confidence)

\* The storing loop of _get_fallback_recommendations: every generated joke
\* becomes a joke row tagged with its generation-time tags.
RECURSIVE StoreGeneratedJokes(_, _, _, _, _)
StoreGeneratedJokes(jk, jt, gens, recs, log) ==
  IF gens = <<>> THEN [jokes |-> jk, jokeTags |-> jt, recs |-> recs, log |-> log]
  ELSE LET g == Head(gens)
           id == NextJokeId(jk)
           jk1 == [k \in (DOMAIN jk) \cup {id} |-> IF k = id THEN NewJokeRow(g.language) ELSE jk[k]]
           jt1 == TagGeneratedJoke(jt, id, g.tags, g.confidence)
       IN StoreGeneratedJokes(jk1, jt1, Tail(gens),
                              Append(recs, [id |-> id, score |-> (7 * ScoreScale) \div 10, strategy |-> "ai_generated"]),
                              log \cup {[id |-> id, verdict |-> g.verdict, moderated |-> g.moderated]})

(***************************************************************************)
(* Recommendation orchestrator: the fallback path                          *)
(***************************************************************************)
\* The failure points of a recommendation request.  A fault names a call
\* that fails in this request:
\*   prefs     the query of _get_user_preferences (caught there: {})
\*   unseen    a query of _get_unseen_jokes_with_tags (caught there: [])
\*   similar   a query of _find_similar_users (caught there: [])
\*   content   get_personalized_recommendations of the repository raises
\*   collab    the query of get_similar_users_recommendations raises
\*   tags      get_joke_tags raises inside _ensure_diversity
\*   metrics   _calculate_performance_metrics fails (caught there)
\*   trending  get_trending_jokes raises
\*   tagscores get_user_tag_scores raises inside the fallback path
\*   aigen     the AI joke generator raises
\*   create    joke_repo.create raises while a generated joke is stored
RaisingFaults == {"content", "collab", "tags"}
FaultSets ==
  {{}} \cup {{f} : f \in RaisingFaults \cup {"prefs", "unseen", "similar", "metrics"}}
       \cup {{"content", g} : g \in {"trending", "tagscores", "aigen", "create"}}

MkResult(recs, breakdown, metrics) ==
  [jokes |-> recs, strategy_breakdown |-> breakdown, performance_metrics |-> metrics, cache_hit |-> FALSE]

FallbackRecs(trending) == [i \in 1..Len(trending) |-> [id |-> trending[i], score |-> ScoreScale \div 2, strategy |-> "fallback"]]

\* A variant of the outermost handler that lets the exception escape.
MutFallbackErrorOutcome(st) ==
  [st EXCEPT !.fired = {"trending"}, !.ai = "not_reached", !.raised = TRUE] @@ [result |-> MkResult(<<>>, <<>>, "error")]

\* The outermost 'except Exception' of _get_fallback_recommendations: the
\* error is logged and an empty result is returned.
FallbackErrorOutcome(st) ==
  [st EXCEPT !.fired = {"trending"}, !.ai = "not_reached", !.raised = FALSE] @@ [result |-> MkResult(<<>>, <<>>, "error")]

TrendingOnly(trending) ==
  MkResult(FallbackRecs(trending), [s \in {"fallback"} |-> Len(trending)], "fallback")

\* PersonalizationService._get_fallback_recommendations, given the list
\* that get_trending_jokes returns and the response of the generator.  The
\* value is the result together with the new joke tables, the new
\* _last_ai_generation and the record of what the generator was asked.
\* can_generate is what _can_generate_ai_jokes returned when the request
\* awaited it.
FallbackRecommendations(u, limit, language, faults, trending, response, can_generate) ==
  LET unchanged == [jokes |-> jokes, jokeTags |-> jokeTags, lastAIGeneration |-> lastAIGeneration, aiCalls |-> <<>>, aiStored |-> {},
                    fired |-> {}, raised |-> FALSE, ai |-> "not_needed"]
      userTags == PositiveUserTags(userTagScores, u, "tagscores" \in faults)
      branch == IF userTags # {} THEN "personalized" ELSE "generic"
      generated == IF userTags # {} THEN GeneratePersonalizedJokes(response, userTags, language)
                   ELSE GenerateFallbackJokes(response, language)
      call == [user |-> u, at |-> now, step |-> steps, branch |-> branch,
               outcome |-> IF "aigen" \in faults THEN "raised"
                           ELSE IF "create" \in faults /\ generated # <<>> THEN "store_failed"
                           ELSE "generated"]
      stored == StoreGeneratedJokes(jokes, jokeTags, generated, <<>>, {})
      all_recommendations == FallbackRecs(trending) \o stored.recs
  IN IF "trending" \in faults
     THEN FallbackErrorOutcome(unchanged)
     ELSE IF Len(trending) >= limit
     THEN unchanged @@ [result |-> TrendingOnly(trending)]
     ELSE IF aiService /\ can_generate
     THEN IF "aigen" \in faults
          THEN [unchanged EXCEPT !.aiCalls = <<call>>, !.fired = faults \cap {"tagscores", "aigen"}, !.ai = "raised"] @@ [result |-> TrendingOnly(trending)]
          ELSE IF "create" \in faults /\ generated # <<>>
          THEN [unchanged EXCEPT !.aiCalls = <<call>>, !.fired = faults \cap {"tagscores", "create"}, !.ai = "store_failed"] @@ [result |-> TrendingOnly(trending)]
          ELSE [jokes |-> stored.jokes, jokeTags |-> stored.jokeTags,
                lastAIGeneration |-> [k \in (DOMAIN lastAIGeneration) \cup {u} |-> IF k = u THEN now ELSE lastAIGeneration[k]],
                aiCalls |-> <<call>>, aiStored |-> stored.log, fired |-> faults \cap {"tagscores"}, raised |-> FALSE, ai |-> "generated",
                result |-> MkResult(Take(all_recommendations, limit),
                                    [s \in {"fallback", "ai_generated"} |-> IF s = "fallback" THEN Len(trending) ELSE Len(stored.recs)],
                                    "ai_fallback")]
     ELSE [unchanged EXCEPT !.ai = IF aiService THEN "cooldown" ELSE "no_service"] @@ [result |-> TrendingOnly(trending)]

(***************************************************************************)
(* Initial state                                                           *)
(***************************************************************************)
\* Jokes as the seed migration creates them (alembic/versions/
\* 002_seed_data.py): a rating, no views, no likes.
SeedJokes == [j \in SeedJokeIds |->
                CASE j = 1 -> [language |-> "en", rating |-> 420, view_count |-> 0, like_count |-> 0, source |-> "seed"]
                  [] j = 2 -> [language |-> "en", rating |-> 380, view_count |-> 0, like_count |-> 0, source |-> "seed"]
                  [] j = 3 -> [language |-> "es", rating |-> 450, view_count |-> 0, like_count |-> 0, source |-> "seed"]]

SeedJokeTags == {[joke |-> 1, tag |-> "t1", confidence |-> 9],
                 [joke |-> 1, tag |-> "t2", confidence |-> 8],
                 [joke |-> 2, tag |-> "t2", confidence |-> 10],
                 [joke |-> 2, tag |-> "t3", confidence |-> 4],
                 [joke |-> 3, tag |-> "t3", confidence |-> 6]}

\* The other user has liked joke 1 before the behaviour starts: the tables
\* hold what update_preferences_from_interaction and mark_as_seen leave.
SeedScores == UpdatePreferencesFromInteraction(<<>>, SeedJokeTags, UserB, 1, "like").scores

SeedSeen == MarkAsSeen({}, SeedJokes, <<>>, UserB, 1, "like", 0)

NoResult == MkResult(<<>>, <<>>, "none")

\* The candidate count of a request that raised before merging.
NotComputed == -1

NoCall == [op |-> "none", user |-> <<>>, limit |-> 0, language |-> "", exclude_seen |-> FALSE, use_collaborative |-> FALSE,
           joke |-> 0, type |-> "", strength |-> 0, raised |-> FALSE, path |-> "none", fired |-> {},
           result |-> NoResult, tags_updated |-> 0, ai |-> "none", trending |-> <<>>, candidates |-> 0,
           removed |-> 0, at |-> 0, step |-> 0, tag |-> "", delta |-> 0, weight |-> 0, before |-> <<>>,
           pre |-> [interactions |-> {}, jokes |-> <<>>], producers |-> <<>>, input |-> <<>>, primary |-> <<>>, prev |-> [op |-> "none", user |-> <<>>, raised |-> FALSE, removed |-> 0, limit |-> 0, language |-> "",
                     exclude_seen |-> FALSE, use_collaborative |-> FALSE, path |-> "none", at |-> 0]]

\* No route has answered yet.
NoResponse == [op |-> "none", user |-> <<>>, status |-> 0, cache_hit |-> FALSE, jokes |-> <<>>, key |-> <<>>,
               step |-> 0, entry_step |-> 0, prev |-> [op |-> "none", user |-> <<>>, status |-> 0, step |-> 0]]

(***************************************************************************)
(* Tag management                                                          *)
(***************************************************************************)
\* The id that a new row gets: a uuid4 value, fresh and distinct from the
\* ids in use.
NewTagId(table) ==
  LET fresh == <<"t4", "t5", "t6">>
      used == {r.id : r \in table}
  IN fresh[CHOOSE i \in 1..Len(fresh) : fresh[i] \notin used /\ \A k \in 1..(i - 1) : fresh[k] \in used]

\* A lookup that never finds a row.
MutExistingTag(table, name) == {}

\* select(Tag).where(Tag.name == name)
ExistingTag(table, name) == {r \in table : r.name = name}

\* TagRepository.create_tag: what it returns and the table it leaves.
\* scalar_one_or_none raises on several rows; the flush raises when the
\* UNIQUE(name) or the CHECK constraint of tags.category rejects the new
\* row; every exception becomes a RepositoryError (returned "") and no row
\* is added.
CreateTagOutcome(table, name, category, value) ==
  LET existing == ExistingTag(table, name)
      id == NewTagId(table)
  IN IF Cardinality(existing) > 1 THEN [raised |-> TRUE, returned |-> "", table |-> table]
     ELSE IF existing # {} THEN [raised |-> FALSE, returned |-> (CHOOSE r \in existing : TRUE).id, table |-> table]
     ELSE IF (\E r \in table : r.name = name) \/ category \notin {"style", "format", "topic", "tone"}
     THEN [raised |-> TRUE, returned |-> "", table |-> table]
     ELSE [raised |-> FALSE, returned |-> id,
           table |-> table \cup {[id |-> id, name |-> name, category |-> category, value |-> value]}]

\* The tags table after the seeding migration, for the tags of the model.
SeedTagTable ==
  {[id |-> t, name |-> CASE t = "t1" -> "Observational" [] t = "t2" -> "Work" [] t = "t3" -> "Silly",
    category |-> Tags[t].category, value |-> Tags[t].value] : t \in TagIds}

\* No create_tag call has been made yet.
NoCreate == [op |-> "none", name |-> "", category |-> "", value |-> "", returned |-> "", raised |-> FALSE, before |-> {}]

(***************************************************************************)
(* Background job manager                                                  *)
(***************************************************************************)
\* The keys of BackgroundJobManager._jobs, in the order start() inserts them.
JobOrder == <<"preference_learning", "metrics_calculation", "data_cleanup">>

JobNames == {JobOrder[i] : i \in 1..3}

\* BackgroundJobManager.__init__
JobsInit ==
  /\ running = FALSE
  /\ jobsMap = <<>>
  /\ tasks = <<>>
  /\ stopCalls = <<>>
  /\ jobStats = [j \in JobNames |-> [runs |-> 0, errors |-> 0]]

\* task.done(): the coroutine returned or the task was cancelled.
TaskDone(t) == t.pc \in {"done", "cancelled"}

\* The variables the job manager does not touch.
appVars == <<dbVars, lastAIGeneration, aiService, now, lastCall, aiCalls, aiStored, steps, routeVars, tagVars, auxVars>>

\* start(): no await inside, so the whole body is one step.  The three
\* created tasks have not run yet.
Start ==
  /\ ~running
  /\ Len(tasks) < 3 * MaxStarts
  /\ running' = TRUE
  /\ tasks' = tasks \o [i \in 1..3 |-> [job |-> JobOrder[i], pc |-> "created", cancel_requested |-> FALSE]]
  /\ jobsMap' = [j \in JobNames |-> Len(tasks) + (CHOOSE i \in 1..3 : JobOrder[i] = j)]
  /\ UNCHANGED <<stopCalls, jobStats, preferenceCache, cacheExpiry, appVars>>

\* The loop `for job_name, task in self._jobs.items()` of stop(), run from
\* position idx of the iterator to its first await: the first task that is
\* not done gets task.cancel() and is awaited; when there is none left the
\* loop ends and _jobs.clear() runs.
StopLoop(idx, size) ==
  LET live == {k \in idx..size : ~TaskDone(tasks[jobsMap[JobOrder[k]]])}
  IN IF live = {}
     THEN [jobs |-> <<>>, tasks |-> tasks, call |-> [pc |-> "returned", idx |-> size, size |-> size, task |-> 0]]
     ELSE LET k == CHOOSE m \in live : \A n \in live : m <= n
              id == jobsMap[JobOrder[k]]
          IN [jobs |-> jobsMap, tasks |-> [tasks EXCEPT ![id].cancel_requested = TRUE],
              call |-> [pc |-> "await", idx |-> k, size |-> size, task |-> id]]

\* stop() up to its first await.  A stop() that finds _running False returns
\* at once and changes nothing.
StopBegin ==
  /\ running
  /\ Len(stopCalls) < MaxStops
  /\ running' = FALSE
  /\ LET r == StopLoop(1, Cardinality(DOMAIN jobsMap))
     IN jobsMap' = r.jobs /\ tasks' = r.tasks /\ stopCalls' = Append(stopCalls, r.call)
  /\ UNCHANGED <<jobStats, preferenceCache, cacheExpiry, appVars>>

\* stop() resumed after `await task`: the awaited task is done (a
\* CancelledError it raises is caught).  The dict iterator raises
\* RuntimeError when the size of _jobs differs from the size it had when the
\* iteration began; otherwise the loop goes on with the values _jobs holds
\* now.
StopResume ==
  \E c \in DOMAIN stopCalls :
    /\ stopCalls[c].pc = "await"
    /\ TaskDone(tasks[stopCalls[c].task])
    /\ IF Cardinality(DOMAIN jobsMap) # stopCalls[c].size
       THEN /\ stopCalls' = [stopCalls EXCEPT ![c].pc = "raised"]
            /\ UNCHANGED <<jobsMap, tasks>>
       ELSE LET r == StopLoop(stopCalls[c].idx + 1, stopCalls[c].size)
            IN jobsMap' = r.jobs /\ tasks' = r.tasks /\ stopCalls' = [stopCalls EXCEPT ![c] = r.call]
    /\ UNCHANGED <<running, jobStats, preferenceCache, cacheExpiry, appVars>>

\* `while self._running:` evaluated when the task runs for the first time or
\* wakes from asyncio.sleep: another iteration starts, or the coroutine
\* returns.
JobWake ==
  \E i \in DOMAIN tasks :
    /\ tasks[i].pc \in {"created", "sleep", "retry"}
    /\ ~tasks[i].cancel_requested
    /\ tasks' = [tasks EXCEPT ![i].pc = IF running THEN "work" ELSE "done"]
    /\ UNCHANGED <<running, jobsMap, stopCalls, jobStats, preferenceCache, cacheExpiry, appVars>>

\* The work of an iteration returns: the statistics are updated and the job
\* sleeps for its interval.  The cleanup job has cleared the caches of the
\* personalization service (_cleanup_cache).
JobWorkCompletes ==
  \E i \in DOMAIN tasks :
    /\ tasks[i].pc = "work"
    /\ ~tasks[i].cancel_requested
    /\ jobStats[tasks[i].job].runs < MaxJobRuns
    /\ jobStats' = [jobStats EXCEPT ![tasks[i].job].runs = @ + 1]
    /\ tasks' = [tasks EXCEPT ![i].pc = "sleep"]
    /\ IF tasks[i].job = "data_cleanup"
       THEN preferenceCache' = <<>> /\ cacheExpiry' = <<>>
       ELSE UNCHANGED <<preferenceCache, cacheExpiry>>
    /\ UNCHANGED <<running, jobsMap, stopCalls, appVars>>

\* A variant of the exception handler that leaves the loop.
MutAfterException(job) == "done"

\* except Exception: the error is counted and logged and the job sleeps for
\* its retry delay, inside the while loop.
AfterException(job) == "retry"

\* The work of an iteration raises.  _process_recent_interactions and
\* _calculate_user_metrics log and re-raise; the helpers of the cleanup job
\* swallow every exception.
JobWorkRaises ==
  \E i \in DOMAIN tasks :
    /\ tasks[i].pc = "work"
    /\ ~tasks[i].cancel_requested
    /\ tasks[i].job \in {"preference_learning", "metrics_calculation"}
    /\ jobStats[tasks[i].job].errors < MaxJobErrors
    /\ jobStats' = [jobStats EXCEPT ![tasks[i].job].errors = @ + 1]
    /\ tasks' = [tasks EXCEPT ![i].pc = AfterException(tasks[i].job)]
    /\ UNCHANGED <<running, jobsMap, stopCalls, preferenceCache, cacheExpiry, appVars>>

\* CancelledError is thrown into a task whose cancellation was requested.
\* Inside the try block (the work, the interval sleep) the job catches it and
\* breaks out of the loop; in the retry sleep of the except handler, or
\* before the coroutine ever ran, it ends the task as cancelled.
JobCancelled ==
  \E i \in DOMAIN tasks :
    /\ tasks[i].cancel_requested
    /\ ~TaskDone(tasks[i])
    /\ tasks' = [tasks EXCEPT ![i].pc = IF tasks[i].pc \in {"work", "sleep"} THEN "done" ELSE "cancelled"]
    /\ UNCHANGED <<running, jobsMap, stopCalls, jobStats, preferenceCache, cacheExpiry, appVars>>

Init ==
  /\ jokes = SeedSeen.jokes
  /\ jokeTags = SeedJokeTags
  /\ interactions = SeedSeen.interactions
  /\ userTagScores = SeedScores
  /\ userStats = SeedSeen.userStats
  /\ preferenceCache = <<>>
  /\ cacheExpiry = <<>>
  /\ lastAIGeneration = <<>>
  /\ aiService \in BOOLEAN
  /\ now = 0
  /\ lastCall = NoCall
  /\ aiCalls = <<>>
  /\ aiStored = {}
  /\ steps = 0
  /\ memoryCache = <<>>
  /\ memoryExpiry = <<>>
  /\ lastResponse = NoResponse
  /\ tagTable = SeedTagTable
  /\ lastCreate = NoCreate
  /\ JobsInit
  /\ inflight = <<>>
  /\ cacheLog = <<>>

(***************************************************************************)
(* Recommendation orchestrator: the operations                             *)
(***************************************************************************)
\* What the next call remembers of the call before it.
Previous == [op |-> lastCall.op, user |-> lastCall.user, raised |-> lastCall.raised, removed |-> lastCall.removed,
             limit |-> lastCall.limit, language |-> lastCall.language, exclude_seen |-> lastCall.exclude_seen,
             use_collaborative |-> lastCall.use_collaborative, path |-> lastCall.path, at |-> lastCall.at]

RecCall(u, limit, language, exclude_seen, use_collaborative, path, fired, result) ==
  [NoCall EXCEPT !.op = "recommend", !.user = u, !.limit = limit, !.language = language,
                 !.exclude_seen = exclude_seen, !.use_collaborative = use_collaborative,
                 !.path = path, !.fired = fired, !.result = result,
                 !.at = now, !.step = steps, !.before = userTagScores, !.producers = lastCall.producers, !.prev = Previous]

\* The 'except Exception' branch of get_personalized_recommendations: the
\* result of _get_fallback_recommendations is returned and not cached.
FallbackStep(u, limit, language, exclude_seen, use_collaborative, faults, cache1, expiry1, firedBefore, candidates) ==
  \E trending \in GetTrendingJokes(jokes, interactions, language, now, TrendingWindow, limit) :
  \E response \in GeneratedResponses :
    LET fb == FallbackRecommendations(u, limit, language, faults, trending, response, CanGenerateAIJokes(lastAIGeneration, u, now))
    IN /\ Cardinality(DOMAIN fb.jokes) <= NumSeedJokes + MaxAIJokes
       /\ (fb.aiCalls = <<>> => response = <<>>)
       /\ jokes' = fb.jokes
       /\ jokeTags' = fb.jokeTags
       /\ lastAIGeneration' = fb.lastAIGeneration
       /\ aiCalls' = aiCalls \o fb.aiCalls
       /\ aiStored' = aiStored \cup fb.aiStored
       /\ preferenceCache' = cache1
       /\ cacheExpiry' = expiry1
       /\ lastCall' = [RecCall(u, limit, language, exclude_seen, use_collaborative, "fallback", firedBefore \cup fb.fired, fb.result)
                         EXCEPT !.raised = fb.raised, !.ai = fb.ai, !.trending = trending, !.candidates = candidates]

\* Steps 4 to 8 of get_personalized_recommendations: merge, diversify,
\* break down, measure, cache and return.
PersonalizedStep(u, limit, language, exclude_seen, use_collaborative, faults, cache1, expiry1, key, unique, firedBefore) ==
  \E primary \in PrimaryCategories(jokeTags, {unique[i].id : i \in 1..Len(unique)}) :
    LET final_recommendations == EnsureDiversity(unique, limit, primary)
        metrics == IF "metrics" \in faults THEN "metrics_error" ELSE "metrics"
        result == MkResult(final_recommendations, CalculateStrategyBreakdown(final_recommendations), metrics)
    IN /\ preferenceCache' = [k \in (DOMAIN cache1) \cup {key} |-> IF k = key THEN result ELSE cache1[k]]
       /\ cacheExpiry' = [k \in (DOMAIN expiry1) \cup {key} |-> IF k = key THEN now + CacheTTL ELSE expiry1[k]]
       /\ lastCall' = [RecCall(u, limit, language, exclude_seen, use_collaborative, "personalized",
                               firedBefore \cup (faults \cap {"metrics"}), result)
                         EXCEPT !.candidates = Len(unique),
                                !.producers = [k \in (DOMAIN lastCall.producers) \cup {key} |->
                                                 IF k = key THEN [user |-> u, limit |-> limit, language |-> language,
                                                                  exclude_seen |-> exclude_seen, use_collaborative |-> use_collaborative]
                                                 ELSE lastCall.producers[k]]]
       /\ UNCHANGED <<jokes, jokeTags, lastAIGeneration, aiCalls, aiStored>>

\* PersonalizationService.get_personalized_recommendations on an instance
\* whose _preference_cache and _cache_expiry are the given ones.
ServiceRecommendations(cache, expiry, u, limit, language, exclude_seen, use_collaborative, faults) ==
  /\ steps' = steps + 1
  /\ UNCHANGED <<interactions, userTagScores, userStats, aiService, now>>
  /\ LET key == CacheKey(u, limit, language, exclude_seen)
     IN IF CacheHit(cache, expiry, key, now)
        THEN /\ faults = {}
             /\ preferenceCache' = [cache EXCEPT ![key].cache_hit = TRUE]
             /\ lastCall' = RecCall(u, limit, language, exclude_seen, use_collaborative, "cache", {},
                                    [cache[key] EXCEPT !.cache_hit = TRUE])
             /\ cacheExpiry' = expiry
             /\ UNCHANGED <<jokes, jokeTags, lastAIGeneration, aiCalls, aiStored>>
        ELSE LET cache1 == Restrict(cache, (DOMAIN cache) \ {key})
                 expiry1 == Restrict(expiry, (DOMAIN expiry) \ {key})
                 similar == IF use_collaborative THEN FindSimilarUsers(userTagScores, u, SimilarityThresholdPct, "similar" \in faults) ELSE {}
                 collabChoices == IF use_collaborative
                                  THEN CollaborativeRecommendations(jokes, interactions, userTagScores, u, Min(limit, CollaborativeCap), language, "similar" \in faults)
                                  ELSE {<<>>}
                 swallowed == (faults \cap {"prefs", "unseen"}) \cup (IF use_collaborative THEN faults \cap {"similar"} ELSE {})
             IN IF "content" \in faults
                THEN FallbackStep(u, limit, language, exclude_seen, use_collaborative, faults, cache1, expiry1, {"content"}, NotComputed)
                ELSE IF "collab" \in faults /\ similar # {}
                THEN FallbackStep(u, limit, language, exclude_seen, use_collaborative, faults, cache1, expiry1, swallowed \cup {"collab"}, NotComputed)
                ELSE \E content \in ContentRecommendations(jokes, jokeTags, interactions, userTagScores, u,
                                                           Min(limit * 2, MaxRecommendations), language,
                                                           "prefs" \in faults, "unseen" \in faults) :
                     \E collab \in collabChoices :
                       LET unique == UniqueRecs(content \o collab, {})
                       IN IF "tags" \in faults /\ Len(unique) > limit
                          THEN FallbackStep(u, limit, language, exclude_seen, use_collaborative, faults, cache1, expiry1, swallowed \cup {"tags"}, Len(unique))
                          ELSE PersonalizedStep(u, limit, language, exclude_seen, use_collaborative, faults, cache1, expiry1, key, unique, swallowed)

\* PersonalizationService.update_user_preferences.  dbFails: a storage
\* error inside update_preferences_from_interaction, which then raises
\* before anything else is done.
ServiceUpdatePreferences(cache, expiry, u, j, type, strength, dbFails) ==
  /\ steps' = steps + 1
  /\ j \in DOMAIN jokes
  /\ LET updated == UpdatePreferencesFromInteraction(userTagScores, jokeTags, u, j, type)
         seen == MarkAsSeen(interactions, jokes, userStats, u, j, type, now)
         call == [NoCall EXCEPT !.op = "update", !.user = u, !.joke = j, !.type = type, !.strength = strength,
                                !.at = now, !.step = steps, !.before = userTagScores,
                                !.pre = [interactions |-> interactions, jokes |-> jokes],
                                !.producers = lastCall.producers, !.prev = Previous]
     IN IF dbFails
        THEN /\ lastCall' = [call EXCEPT !.raised = TRUE, !.fired = {"db"}]
             /\ preferenceCache' = cache
             /\ cacheExpiry' = expiry
             /\ UNCHANGED dbVars
        ELSE /\ userTagScores' = updated.scores
             /\ preferenceCache' = InvalidateUserCache(cache, cache, u)
             /\ cacheExpiry' = InvalidateUserCache(expiry, cache, u)
             /\ interactions' = seen.interactions
             /\ jokes' = seen.jokes
             /\ userStats' = seen.userStats
             /\ jokeTags' = jokeTags
             /\ lastCall' = [call EXCEPT !.raised = seen.raised, !.tags_updated = updated.updated_count,
                                         !.removed = Cardinality(KeysOfUser(cache, u))]
  /\ UNCHANGED <<lastAIGeneration, aiService, now, aiCalls, aiStored>>

(***************************************************************************)
(* Cold start                                                              *)
(***************************************************************************)
\* limit of _ensure_diversity and of _get_fallback_recommendations in
\* handle_cold_start_user
ColdStartLimit == 10

\* str.lower() on the names of the model.
Lower(name) ==
  CASE name \in {"Observational", "OBSERVATIONAL", "observational"} -> "observational"
    [] name \in {"Work", "work"} -> "work"
    [] name \in {"Silly", "silly"} -> "silly"
    [] OTHER -> name

\* The inner loop of _initialize_user_preferences: the ids of the tags that
\* tag_map.get(tag_name.lower()) finds, in the order of tag_names.
RECURSIVE NamedInCategory(_, _)
NamedInCategory(tags, tag_names) ==
  IF tag_names = <<>> THEN <<>>
  ELSE LET found == {r \in tags : Lower(r.name) = Lower(Head(tag_names))}
       IN (IF found = {} THEN <<>> ELSE <<(CHOOSE r \in found : TRUE).id>>) \o NamedInCategory(tags, Tail(tag_names))

\* The outer loop over preferences.items(), a sequence of <<category,
\* tag_names>>, with the rows that get_tags_by_category returns.
RECURSIVE NamedTags(_, _)
NamedTags(table, preferences) ==
  IF preferences = <<>> THEN <<>>
  ELSE NamedInCategory({r \in table : r.category = Head(preferences)[1]}, Head(preferences)[2]) \o NamedTags(table, Tail(preferences))

\* PersonalizationService._initialize_user_preferences, given the tags
\* found: score_delta=0.5 (500 thousandths), interaction_weight=1.0 (10 tenths).
RECURSIVE InitializeUserPreferences(_, _, _)
InitializeUserPreferences(scores, u, named) ==
  IF named = <<>> THEN scores
  ELSE InitializeUserPreferences(UpdateUserTagScore(scores, u, Head(named), 500, 10), u, Tail(named))

ColdCall(u, preferences, language, path, fired, result) ==
  [NoCall EXCEPT !.op = "cold_start", !.user = u, !.language = language, !.input = preferences, !.limit = ColdStartLimit,
                 !.path = path, !.fired = fired, !.result = result,
                 !.at = now, !.step = steps, !.before = userTagScores, !.producers = lastCall.producers, !.prev = Previous]

\* PersonalizationService.handle_cold_start_user.  Faults: "init", the first
\* update_user_tag_score raises before it writes; "trending",
\* get_trending_jokes raises (here and again in the fallback).
HandleColdStartUser(u, preferences, language, faults) ==
  LET named == NamedTags(tagTable, preferences)
      initFails == "init" \in faults /\ named # <<>>
  IN /\ steps' = steps + 1
     /\ userTagScores' = IF initFails THEN userTagScores ELSE InitializeUserPreferences(userTagScores, u, named)
     /\ UNCHANGED <<interactions, userStats, preferenceCache, cacheExpiry, aiService, now>>
     /\ IF initFails \/ "trending" \in faults
        THEN \E trending \in GetTrendingJokes(jokes, interactions, language, now, TrendingWindow, ColdStartLimit) :
             \E response \in GeneratedResponses :
               LET fb == FallbackRecommendations(u, ColdStartLimit, language, faults \cap {"trending"}, trending, response, CanGenerateAIJokes(lastAIGeneration, u, now))
               IN /\ Cardinality(DOMAIN fb.jokes) <= NumSeedJokes + MaxAIJokes
                  /\ (fb.aiCalls = <<>> => response = <<>>)
                  /\ jokes' = fb.jokes
                  /\ jokeTags' = fb.jokeTags
                  /\ lastAIGeneration' = fb.lastAIGeneration
                  /\ aiCalls' = aiCalls \o fb.aiCalls
                  /\ aiStored' = aiStored \cup fb.aiStored
                  /\ lastCall' = [ColdCall(u, preferences, language, "fallback", (faults \cap {"init", "trending"}) \cup fb.fired, fb.result)
                                    EXCEPT !.raised = fb.raised, !.ai = fb.ai, !.trending = trending]
        ELSE \* time_window_hours=168 (10080 minutes), limit=20; score 0.5 + random.uniform(-0.1, 0.1)
             \E trending \in GetTrendingJokes(jokes, interactions, language, now, 10080, 20) :
             \E noise \in [1..Len(trending) -> {-(ScoreScale \div 10), 0, ScoreScale \div 10}] :
             \E primary \in PrimaryCategories(jokeTags, {trending[i] : i \in 1..Len(trending)}) :
               LET recommendations == [i \in 1..Len(trending) |-> [id |-> trending[i], score |-> (ScoreScale \div 2) + noise[i], strategy |-> "explore"]]
                   diverse_recommendations == EnsureDiversity(recommendations, ColdStartLimit, primary)
                   result == MkResult(diverse_recommendations, [s \in {"explore"} |-> Len(diverse_recommendations)], "cold_start")
               IN /\ lastCall' = [ColdCall(u, preferences, language, "cold_start", {}, result) EXCEPT !.trending = trending]
                  /\ UNCHANGED <<jokes, jokeTags, lastAIGeneration, aiCalls, aiStored>>

(***************************************************************************)
(* Specification of the recommendation path under failures                 *)
(***************************************************************************)
\* The requests of the behaviours: <<limit, exclude_seen, use_collaborative,
\* faults>>.  Requests without a fault vary the parameters; requests with
\* faults are made with limit 2, where the seed data leave fewer trending
\* jokes than the limit, and one with limit 1, where they do not; one
\* request is made with exclude_seen false.
RecRequests ==
  ({1, 2} \X {TRUE} \X BOOLEAN \X {{}})
    \cup ({2} \X {TRUE} \X {TRUE} \X (FaultSets \ {{}}))
    \cup {<<1, TRUE, TRUE, {"content"}>>, <<2, FALSE, FALSE, {}>>}

\* The feedback of the behaviours: <<joke, type, strength, dbFails>>.
FeedbackInputs ==
  ({1, 2} \X InteractionTypes \X {10} \X {FALSE})
    \cup {<<1, "like", 5, FALSE>>, <<1, "share", 10, FALSE>>, <<1, "like", 10, TRUE>>}

Recommend ==
  /\ steps < MaxSteps
  /\ UNCHANGED <<routeVars, tagVars, jobVars, auxVars>>
  /\ \E req \in RecRequests :
       ServiceRecommendations(preferenceCache, cacheExpiry, UserA, req[1], "en", req[2], req[3], req[4])

Feedback ==
  /\ steps < MaxSteps
  /\ UNCHANGED <<routeVars, tagVars, jobVars, auxVars>>
  /\ \E fb \in FeedbackInputs :
       ServiceUpdatePreferences(preferenceCache, cacheExpiry, UserA, fb[1], fb[2], fb[3], fb[4])

\* Time passes between two calls.
Advance ==
  /\ steps < MaxSteps
  /\ UNCHANGED <<routeVars, tagVars, jobVars, auxVars>>
  /\ UNCHANGED <<dbVars, svcVars, lastCall, aiCalls, aiStored>>
  /\ steps' = steps + 1
  /\ \E d \in {1, 4, 5} : now + d <= MaxTime /\ now' = now + d

Next == Recommend \/ Feedback \/ Advance

Spec == Init /\ [][Next]_vars

(***************************************************************************)
(* Specification of the preference update rule alone                       *)
(***************************************************************************)
\* TagRepository.update_user_tag_score called directly, with score deltas
\* in thousandths and interaction weights in tenths.
ScoreUpdates ==
  /\ steps < MaxScoreUpdates
  /\ UNCHANGED <<routeVars, tagVars, jobVars, auxVars>>
  /\ UNCHANGED <<jokes, jokeTags, interactions, userStats, svcVars, now, aiCalls, aiStored>>
  /\ steps' = steps + 1
  /\ \E t \in {"t1", "t2"}, delta \in {-3000, 300, 3000}, weight \in {-10, 5, 10} :
       /\ userTagScores' = UpdateUserTagScore(userTagScores, UserA, t, delta, weight)
       /\ lastCall' = [NoCall EXCEPT !.op = "score", !.user = UserA, !.tag = t, !.delta = delta, !.weight = weight,
                                     !.at = now, !.step = steps, !.before = userTagScores,
                                     !.producers = lastCall.producers, !.prev = Previous]

SpecScore == Init /\ [][ScoreUpdates]_vars

(***************************************************************************)
(* Specification of repeated identical updates of one fresh pair           *)
(***************************************************************************)
\* Tests call update_user_tag_score again and again with one score_delta
\* for a pair that has no row yet.  The call record keeps, in `input`, the
\* score the row has after each update.
DecayUpdates ==
  /\ UNCHANGED <<routeVars, tagVars, jobVars, auxVars>>
  /\ UNCHANGED <<jokes, jokeTags, interactions, userStats, svcVars, now, aiCalls, aiStored, steps>>
  /\ Len(lastCall.input) < MaxRepeats
  /\ \E t \in {"t1", "t3"}, delta \in {1, 100, 300, 1000, 3000, 3333, 3334, 5000}, weight \in {5, 10, 20} :
       /\ lastCall.op = "none" \/ (lastCall.op = "decay" /\ lastCall.tag = t /\ lastCall.delta = delta /\ lastCall.weight = weight)
       /\ userTagScores' = UpdateUserTagScore(userTagScores, UserA, t, delta, weight)
       /\ lastCall' = [NoCall EXCEPT !.op = "decay", !.user = UserA, !.tag = t, !.delta = delta, !.weight = weight,
                                     !.before = userTagScores,
                                     !.input = Append(lastCall.input, userTagScores'[<<UserA, t>>].score)]

SpecDecay == Init /\ [][DecayUpdates]_vars

(***************************************************************************)
(* Specification of the diversity ranker alone                             *)
(***************************************************************************)
\* One call of _ensure_diversity on a list of n recommendations, best first
\* (the ids are 1..n), whose jokes have the given primary categories
\* (NoCategory: get_joke_tags returns no row).  The ranker keeps no state
\* between calls: one call per behaviour.
DiversityCalls ==
  /\ lastCall = NoCall
  /\ UNCHANGED <<dbVars, svcVars, now, aiCalls, aiStored, steps, routeVars, tagVars, jobVars, auxVars>>
  /\ \E n \in 0..MaxCandidates, limit \in 1..MaxLimit :
       \E primary \in [1..n -> {Tags[t].category : t \in TagIds} \cup {NoCategory}] :
         LET recs == [i \in 1..n |-> [id |-> i, score |-> 0, strategy |-> "exploit"]]
         IN lastCall' = [NoCall EXCEPT !.op = "diversify", !.limit = limit, !.input = recs, !.primary = primary,
                                       !.result = [NoResult EXCEPT !.jokes = EnsureDiversity(recs, limit, primary)]]

SpecDiversity == Init /\ [][DiversityCalls]_vars

(***************************************************************************)
(* The routes and the CacheService in front of the service                 *)
(***************************************************************************)
\* The context dict of the recommendations route; exploration_rate is left
\* at its default None in every request of the model.
Context(limit, language, exclude_seen, use_collaborative) ==
  [language |-> language, limit |-> limit, exploration_rate |-> "null",
   use_collaborative |-> use_collaborative, exclude_seen |-> exclude_seen]

\* json.dumps(context, sort_keys=True) as tokens.  hash() of that string is
\* modelled by the string itself: equal strings have equal hashes, and no
\* two of the strings of the model collide.
ContextHash(ctx) ==
  <<"exclude_seen", FormatBool(ctx.exclude_seen), "exploration_rate", ctx.exploration_rate, "language", ctx.language,
    "limit", FormatInt(ctx.limit), "use_collaborative", FormatBool(ctx.use_collaborative)>>

\* The key of cache_recommendations and get_cached_recommendations, with the
\* prefix that CacheService._get_key puts in front.
RecommendationsKey(u, ctx) == <<"giggleslide:">> \o <<"recommendations:">> \o u \o <<":">> \o ContextHash(ctx)

\* ttl of cache_recommendations: 300 seconds, in minutes.
RecommendationsTTL == 5

\* 'pattern in key' of Python strings.
Contains(str, sub) == \E i \in 0..(Len(str) - Len(sub)) : SubSeq(str, i + 1, i + Len(sub)) = sub

\* CacheService.invalidate_user_cache on the in-memory backend: the keys
\* that remain, given the patterns with '*' removed.
KeysAfterInvalidate(cache, u) ==
  LET patterns == {<<"user_prefs:">> \o u, <<"recommendations:">> \o u \o <<":">>, <<"session:">> \o u}
  IN {k \in DOMAIN cache : ~(\E pat \in patterns : Contains(k, pat))}

\* A variant of the lookup that still serves an entry at its expiry time.
MutMemoryHit(cache, expiry, key, at) == key \in DOMAIN cache /\ key \in DOMAIN expiry /\ at <= expiry[key]

\* The lookup of the getters of CacheService on the in-memory backend
\* (get_cached_recommendations, get_user_session).
MemoryHit(cache, expiry, key, at) == key \in DOMAIN cache /\ key \in DOMAIN expiry /\ at < expiry[key]

PreviousResponse == [op |-> lastResponse.op, user |-> lastResponse.user, status |-> lastResponse.status, step |-> lastResponse.step]

\* POST /api/personalized/recommendations.  The service is constructed for the
\* request (get_personalization_service), so its own cache starts empty.
RouteRecommendations(u, limit, language, exclude_seen, use_collaborative, faults) ==
  steps < MaxSteps /\ UNCHANGED <<tagVars, jobVars, auxVars>> /\
  LET ctx == Context(limit, language, exclude_seen, use_collaborative)
      key == RecommendationsKey(u, ctx)
      response == [NoResponse EXCEPT !.op = "recommendations", !.user = u, !.status = 200, !.key = key,
                                     !.step = steps, !.prev = PreviousResponse]
  IN IF MemoryHit(memoryCache, memoryExpiry, key, now)
     THEN /\ faults = {}
          /\ steps' = steps + 1
          /\ lastResponse' = [response EXCEPT !.cache_hit = TRUE, !.jokes = memoryCache[key].jokes,
                                              !.entry_step = memoryCache[key].step]
          /\ UNCHANGED <<dbVars, svcVars, now, lastCall, aiCalls, aiStored, memoryCache, memoryExpiry>>
     ELSE /\ ServiceRecommendations(<<>>, <<>>, u, limit, language, exclude_seen, use_collaborative, faults)
          /\ LET data == [jokes |-> lastCall'.result.jokes, strategy_breakdown |-> lastCall'.result.strategy_breakdown,
                          cached_at |-> now, step |-> steps]
             IN /\ memoryCache' = [k \in (DOMAIN memoryCache) \cup {key} |-> IF k = key THEN data ELSE memoryCache[k]]
                /\ memoryExpiry' = [k \in (DOMAIN memoryExpiry) \cup {key} |->
                                      IF k = key THEN now + RecommendationsTTL ELSE memoryExpiry[k]]
          /\ lastResponse' = [response EXCEPT !.cache_hit = lastCall'.result.cache_hit, !.jokes = lastCall'.result.jokes,
                                              !.entry_step = steps]

\* POST /api/personalized/feedback.  An exception of the service becomes a
\* response with status 500.
\* The feedback of the behaviours: <<joke, type, strength, dbFails>>.
FeedbackRequest ==
  \E fb \in ({1, 2} \X InteractionTypes \X {10} \X {FALSE}) \cup {<<1, "share", 10, FALSE>>, <<1, "like", 10, TRUE>>} :
    /\ steps < MaxSteps
    /\ UNCHANGED <<tagVars, jobVars, auxVars, memoryCache, memoryExpiry>>
    /\ ServiceUpdatePreferences(<<>>, <<>>, UserA, fb[1], fb[2], fb[3], fb[4])
    /\ lastResponse' = [NoResponse EXCEPT !.op = "feedback", !.user = UserA, !.status = IF lastCall'.raised THEN 500 ELSE 200,
                                          !.step = steps, !.prev = PreviousResponse]

\* DELETE /api/personalized/cache
ClearCacheRequest ==
  /\ steps < MaxSteps
  /\ steps' = steps + 1
  /\ memoryCache' = Restrict(memoryCache, KeysAfterInvalidate(memoryCache, UserA))
  /\ memoryExpiry' = Restrict(memoryExpiry, (DOMAIN memoryExpiry) \cap KeysAfterInvalidate(memoryCache, UserA))
  /\ lastResponse' = [NoResponse EXCEPT !.op = "clear", !.user = UserA, !.status = 200, !.step = steps, !.prev = PreviousResponse]
  /\ UNCHANGED <<dbVars, svcVars, now, lastCall, aiCalls, aiStored, tagVars, jobVars, auxVars>>

\* The requests of the behaviours: <<limit, exclude_seen, use_collaborative,
\* faults>>.
RecommendationsRequest ==
  \E req \in ({1, 2} \X {TRUE} \X BOOLEAN \X {{}}) \cup {<<2, TRUE, TRUE, {"content"}>>, <<2, FALSE, TRUE, {}>>} :
    RouteRecommendations(UserA, req[1], "en", req[2], req[3], req[4])

RouteNext == RecommendationsRequest \/ FeedbackRequest \/ ClearCacheRequest \/ Advance

\* The service of a route is constructed without an AI joke service.
RoutesInit == Init /\ ~aiService

SpecRoutes == RoutesInit /\ [][RouteNext]_vars

(***************************************************************************)
(* Specification of the in-memory backend of CacheService                  *)
(***************************************************************************)
\* User ids of the cache calls: "a", "ab" and "b".
CacheUsers == {<<"a">>, <<"a", "b">>, <<"b">>}

\* self._get_key(f"session:{user_id}")
SessionKey(u) == <<"giggleslide:", "session:">> \o u

\* d[k] = v of a Python dict.
Put(d, k, v) == [x \in (DOMAIN d) \cup {k} |-> IF x = k THEN v ELSE d[x]]

\* What a call on the cache returned and what the cache held when it began.
CacheCall(op, u, returned) ==
  [op |-> op, user |-> u, returned |-> returned, before |-> memoryCache, expiry_before |-> memoryExpiry,
   log |-> cacheLog, at |-> now]

\* One call on the cache service: nothing but the cache changes.
CacheStep ==
  /\ steps < MaxSteps
  /\ steps' = steps + 1
  /\ UNCHANGED <<dbVars, svcVars, now, lastCall, aiCalls, aiStored, tagVars, jobVars, inflight>>

\* cache_user_session on the in-memory backend, ttl in minutes.
CacheUserSession ==
  \E u \in CacheUsers, session_data \in {"s1", "s2"}, ttl \in {1, 4} :
    /\ CacheStep
    /\ memoryCache' = Put(memoryCache, SessionKey(u), session_data)
    /\ memoryExpiry' = Put(memoryExpiry, SessionKey(u), now + ttl)
    /\ cacheLog' = Put(cacheLog, u, [data |-> session_data, at |-> now, ttl |-> ttl])
    /\ lastResponse' = CacheCall("cache_session", u, "True")

\* cache_tags(tags) on the in-memory backend: a global entry, ttl 2 hours.
CacheTags ==
  /\ CacheStep
  /\ memoryCache' = Put(memoryCache, <<"giggleslide:", "tags:", "all">>, "tags")
  /\ memoryExpiry' = Put(memoryExpiry, <<"giggleslide:", "tags:", "all">>, now + 120)
  /\ lastResponse' = CacheCall("cache_tags", <<>>, "True")
  /\ UNCHANGED cacheLog

\* get_user_session on the in-memory backend: an entry that is not expired
\* is returned, an expired one is deleted.
GetUserSession ==
  \E u \in CacheUsers :
    LET key == SessionKey(u)
    IN /\ CacheStep
       /\ UNCHANGED cacheLog
       /\ IF key \notin DOMAIN memoryCache
          THEN lastResponse' = CacheCall("get_session", u, "None") /\ UNCHANGED <<memoryCache, memoryExpiry>>
          ELSE IF MemoryHit(memoryCache, memoryExpiry, key, now)
          THEN lastResponse' = CacheCall("get_session", u, memoryCache[key]) /\ UNCHANGED <<memoryCache, memoryExpiry>>
          ELSE /\ lastResponse' = CacheCall("get_session", u, "None")
               /\ memoryCache' = Restrict(memoryCache, (DOMAIN memoryCache) \ {key})
               /\ memoryExpiry' = Restrict(memoryExpiry, (DOMAIN memoryExpiry) \ {key})

\* invalidate_user_cache on the in-memory backend.  The history of stored
\* sessions starts afresh.
InvalidateUserCacheCall ==
  \E u \in CacheUsers :
    /\ CacheStep
    /\ memoryCache' = Restrict(memoryCache, KeysAfterInvalidate(memoryCache, u))
    /\ memoryExpiry' = Restrict(memoryExpiry, (DOMAIN memoryExpiry) \cap KeysAfterInvalidate(memoryCache, u))
    /\ cacheLog' = <<>>
    /\ lastResponse' = CacheCall("invalidate", u, "True")

\* clear_expired_cache: every entry whose expiry is not after now goes.
ClearExpiredCache ==
  LET expired_keys == {k \in DOMAIN memoryExpiry : memoryExpiry[k] <= now}
  IN /\ CacheStep
     /\ memoryCache' = Restrict(memoryCache, (DOMAIN memoryCache) \ expired_keys)
     /\ memoryExpiry' = Restrict(memoryExpiry, (DOMAIN memoryExpiry) \ expired_keys)
     /\ lastResponse' = CacheCall("clear_expired", <<>>, Cardinality(expired_keys))
     /\ UNCHANGED cacheLog

SpecCache ==
  RoutesInit /\ [][CacheUserSession \/ CacheTags \/ GetUserSession \/ InvalidateUserCacheCall \/ ClearExpiredCache \/ Advance]_vars

(***************************************************************************)
(* Specification with concurrent requests on one service instance          *)
(***************************************************************************)
\* get_personalized_recommendations from its start to the await of its last
\* query: the cache has no live entry for the key (an expired one is
\* deleted), the queries run and the result is built.  The coroutine is then
\* suspended with the result in its local variables; other calls run before
\* it resumes.
RecBegin ==
  /\ steps < MaxConcurrentSteps
  /\ Len(inflight) < MaxInflight
  /\ steps' = steps + 1
  /\ UNCHANGED <<dbVars, lastAIGeneration, aiService, now, lastCall, aiCalls, aiStored, routeVars, tagVars, jobVars>>
  /\ \E limit \in Limits :
       LET key == CacheKey(UserA, limit, "en", TRUE)
       IN /\ ~CacheHit(preferenceCache, cacheExpiry, key, now)
          /\ preferenceCache' = Restrict(preferenceCache, (DOMAIN preferenceCache) \ {key})
          /\ cacheExpiry' = Restrict(cacheExpiry, (DOMAIN cacheExpiry) \ {key})
          /\ cacheLog' = Restrict(cacheLog, (DOMAIN cacheLog) \ {key})
          /\ \E content \in ContentRecommendations(jokes, jokeTags, interactions, userTagScores, UserA,
                                                   Min(limit * 2, MaxRecommendations), "en", FALSE, FALSE) :
             \E primary \in PrimaryCategories(jokeTags, {content[i].id : i \in 1..Len(content)}) :
               LET final_recommendations == EnsureDiversity(UniqueRecs(content, {}), limit, primary)
                   result == MkResult(final_recommendations, CalculateStrategyBreakdown(final_recommendations), "metrics")
               IN inflight' = Append(inflight, [op |-> "recommend", user |-> UserA, limit |-> limit, key |-> key,
                                                result |-> result, outdated |-> FALSE])

\* The suspended request resumes: _cache_recommendations stores its result
\* for five minutes and the result is returned.  cacheLog remembers whether
\* an update of the user completed while the request was suspended.
RecFinish ==
  /\ steps < MaxConcurrentSteps
  /\ steps' = steps + 1
  /\ UNCHANGED <<dbVars, lastAIGeneration, aiService, now, aiCalls, aiStored, routeVars, tagVars, jobVars>>
  /\ \E i \in DOMAIN inflight :
       /\ inflight[i].op = "recommend"
       /\ preferenceCache' = Put(preferenceCache, inflight[i].key, inflight[i].result)
       /\ cacheExpiry' = Put(cacheExpiry, inflight[i].key, now + CacheTTL)
       /\ cacheLog' = Put(cacheLog, inflight[i].key, [outdated |-> inflight[i].outdated])
       /\ lastCall' = RecCall(inflight[i].user, inflight[i].limit, "en", TRUE, FALSE, "personalized", {}, inflight[i].result)
       /\ inflight' = SubSeq(inflight, 1, i - 1) \o SubSeq(inflight, i + 1, Len(inflight))

\* update_user_preferences running to its end while requests are suspended:
\* the tables change and the user's cache entries are removed.  What the
\* suspended requests of the user have computed is from before the update.
UpdateDuring ==
  /\ steps < MaxConcurrentSteps
  /\ UNCHANGED <<routeVars, tagVars, jobVars>>
  /\ \E fb \in {1, 2} \X {"like", "skip"} :
       ServiceUpdatePreferences(preferenceCache, cacheExpiry, UserA, fb[1], fb[2], 10, FALSE)
  /\ cacheLog' = Restrict(cacheLog, (DOMAIN cacheLog) \ KeysOfUser(cacheLog, UserA))
  /\ inflight' = [i \in DOMAIN inflight |->
                    IF inflight[i].op = "recommend" /\ inflight[i].user = UserA
                    THEN [inflight[i] EXCEPT !.outdated = TRUE] ELSE inflight[i]]

\* get_personalized_recommendations running to its end without another call
\* in between: a cache hit, or a result computed and cached now.
RecWhole ==
  /\ steps < MaxConcurrentSteps
  /\ UNCHANGED <<routeVars, tagVars, jobVars, inflight>>
  /\ \E limit \in Limits :
       /\ ServiceRecommendations(preferenceCache, cacheExpiry, UserA, limit, "en", TRUE, FALSE, {})
       /\ cacheLog' = IF CacheHit(preferenceCache, cacheExpiry, CacheKey(UserA, limit, "en", TRUE), now)
                      THEN cacheLog
                      ELSE Restrict(cacheLog, (DOMAIN cacheLog) \ {CacheKey(UserA, limit, "en", TRUE)})

\* A request whose content query raises, from its start to the await that
\* follows the cooldown check of _get_fallback_recommendations: the trending
\* jokes are fewer than the limit, a generator is configured and
\* _can_generate_ai_jokes has returned True.  The request is suspended at
\* the await of get_user_tag_scores or of the generator.
FallbackBegin ==
  /\ steps < MaxConcurrentSteps
  /\ Len(inflight) < MaxInflight
  /\ steps' = steps + 1
  /\ UNCHANGED <<dbVars, lastAIGeneration, aiService, now, lastCall, aiCalls, aiStored, routeVars, tagVars, jobVars>>
  /\ \E limit \in Limits :
     \E trending \in GetTrendingJokes(jokes, interactions, "en", now, TrendingWindow, limit) :
       LET key == CacheKey(UserA, limit, "en", TRUE)
       IN /\ ~CacheHit(preferenceCache, cacheExpiry, key, now)
          /\ Len(trending) < limit
          /\ aiService /\ CanGenerateAIJokes(lastAIGeneration, UserA, now)
          /\ preferenceCache' = Restrict(preferenceCache, (DOMAIN preferenceCache) \ {key})
          /\ cacheExpiry' = Restrict(cacheExpiry, (DOMAIN cacheExpiry) \ {key})
          /\ cacheLog' = Restrict(cacheLog, (DOMAIN cacheLog) \ {key})
          /\ inflight' = Append(inflight, [op |-> "fallback", user |-> UserA, limit |-> limit, key |-> key,
                                           result |-> TrendingOnly(trending), outdated |-> FALSE])

\* The suspended fallback request resumes: the generator answers, the jokes
\* are stored, _last_ai_generation is set and the result is returned.
FallbackFinish ==
  /\ steps < MaxConcurrentSteps
  /\ steps' = steps + 1
  /\ UNCHANGED <<interactions, userTagScores, userStats, preferenceCache, cacheExpiry, aiService, now, routeVars, tagVars, jobVars, cacheLog>>
  /\ \E i \in DOMAIN inflight, response \in GeneratedResponses :
       LET trending == [n \in 1..Len(inflight[i].result.jokes) |-> inflight[i].result.jokes[n].id]
           fb == FallbackRecommendations(inflight[i].user, inflight[i].limit, "en", {}, trending, response, TRUE)
       IN /\ inflight[i].op = "fallback"
          /\ Cardinality(DOMAIN fb.jokes) <= NumSeedJokes + MaxAIJokes
          /\ jokes' = fb.jokes
          /\ jokeTags' = fb.jokeTags
          /\ lastAIGeneration' = fb.lastAIGeneration
          /\ aiCalls' = aiCalls \o fb.aiCalls
          /\ aiStored' = aiStored \cup fb.aiStored
          /\ lastCall' = [RecCall(inflight[i].user, inflight[i].limit, "en", TRUE, FALSE, "fallback", {"content"}, fb.result)
                            EXCEPT !.ai = fb.ai, !.trending = trending]
          /\ inflight' = SubSeq(inflight, 1, i - 1) \o SubSeq(inflight, i + 1, Len(inflight))

SpecConcurrent == Init /\ [][RecBegin \/ RecFinish \/ UpdateDuring \/ RecWhole \/ FallbackBegin \/ FallbackFinish]_vars

(***************************************************************************)
(* Specification with update_user_tag_score in separate sessions           *)
(***************************************************************************)
\* update_user_tag_score up to the await of its SELECT: the session holds
\* the row it has read, or no row.  No lock is taken (no with_for_update) and
\* the engine sets no isolation level.
ScoreRead ==
  /\ steps < MaxSessionSteps
  /\ Len(inflight) < MaxInflight
  /\ steps' = steps + 1
  /\ UNCHANGED <<dbVars, svcVars, now, lastCall, aiCalls, aiStored, routeVars, tagVars, jobVars, cacheLog>>
  /\ \E delta \in {-1000, 500, 1000}, weight \in {5, 10} :
       inflight' = Append(inflight, [op |-> "tag_score", user |-> UserA, tag |-> "t1", delta |-> delta, weight |-> weight,
                                     before |-> userTagScores])

\* The session resumes: the new score and interaction_count are computed
\* from the row it has read and flushed, an INSERT when it had read no row
\* and an UPDATE of both columns otherwise.  The INSERT of a pair that
\* another session has inserted meanwhile violates idx_user_tag_score_unique
\* and the call raises RepositoryError.
ScoreWrite ==
  /\ steps < MaxSessionSteps
  /\ steps' = steps + 1
  /\ UNCHANGED <<jokes, jokeTags, interactions, userStats, svcVars, now, aiCalls, aiStored, routeVars, tagVars, jobVars, cacheLog>>
  /\ \E i \in DOMAIN inflight :
       LET e == inflight[i]
           key == <<e.user, e.tag>>
           row == UpdateUserTagScore(e.before, e.user, e.tag, e.delta, e.weight)[key]
           raises == key \notin DOMAIN e.before /\ key \in DOMAIN userTagScores
       IN /\ e.op = "tag_score"
          /\ userTagScores' = IF raises THEN userTagScores ELSE Put(userTagScores, key, row)
          /\ lastCall' = [NoCall EXCEPT !.op = "tag_score", !.user = e.user, !.tag = e.tag, !.delta = e.delta, !.weight = e.weight,
                                        !.raised = raises, !.before = e.before, !.at = now, !.step = steps,
                                        !.input = IF raises THEN lastCall.input ELSE Append(lastCall.input, row.score)]
          /\ inflight' = SubSeq(inflight, 1, i - 1) \o SubSeq(inflight, i + 1, Len(inflight))

SpecSessions == RoutesInit /\ [][ScoreRead \/ ScoreWrite]_vars

(***************************************************************************)
(* Specification with cold starts                                          *)
(***************************************************************************)
\* The cold starts of the behaviours, <<initial_preferences, faults>>.  The
\* preferences: None, one tag, a tag under the wrong category, tags of two
\* categories with an unknown name, and one tag named twice.
ColdRequests ==
  ({<<>>,
    <<<<"style", <<"Observational">>>>>>,
    <<<<"tone", <<"Observational">>>>>>,
    <<<<"style", <<"observational">>>>, <<"topic", <<"Work", "unknown">>>>>>,
    <<<<"tone", <<"Silly", "silly">>>>>>} \X {{}})
    \cup ({<<<<"style", <<"Observational">>>>>>} \X {{"init"}, {"trending"}})

ColdStart ==
  /\ steps < MaxSteps
  /\ UNCHANGED <<routeVars, tagVars, jobVars, auxVars>>
  /\ \E req \in ColdRequests : HandleColdStartUser(UserA, req[1], "en", req[2])

SpecCold == Init /\ [][ColdStart \/ Feedback \/ Advance]_vars

(***************************************************************************)
(* Specification of tag creation alone                                     *)
(***************************************************************************)
\* create_tag with one seeded name or a new one, and with a category inside
\* or outside the CHECK constraint.
CreateTagCalls ==
  \E name \in {"Observational", "Dad Jokes", "Tech", "Puns"}, category \in {"style", "topic", "mood"} :
    LET out == CreateTagOutcome(tagTable, name, category, "new_value")
    IN /\ tagTable' = out.table
       /\ lastCreate' = [op |-> "create_tag", name |-> name, category |-> category, value |-> "new_value",
                         returned |-> out.returned, raised |-> out.raised, before |-> tagTable]
       /\ UNCHANGED <<dbVars, svcVars, now, lastCall, aiCalls, aiStored, steps, routeVars, jobVars, auxVars>>

SpecTags == Init /\ [][CreateTagCalls]_vars

(***************************************************************************)
(* Specification with a joke that only the other user has touched          *)
(***************************************************************************)
\* A joke row with the column defaults (rating 0.0) and no tag row, added to
\* the seeded ones, and liked once by the other user.
FreshSeen ==
  LET id == NextJokeId(SeedJokes)
  IN MarkAsSeen(SeedSeen.interactions,
                [j \in (DOMAIN SeedSeen.jokes) \cup {id} |-> IF j = id THEN NewJokeRow("en") ELSE SeedSeen.jokes[j]],
                SeedSeen.userStats, UserB, id, "like", 0)

CollabInit ==
  /\ jokes = FreshSeen.jokes
  /\ jokeTags = SeedJokeTags
  /\ interactions = FreshSeen.interactions
  /\ userTagScores = UpdatePreferencesFromInteraction(SeedScores, SeedJokeTags, UserB, NextJokeId(SeedJokes), "like").scores
  /\ userStats = FreshSeen.userStats
  /\ preferenceCache = <<>>
  /\ cacheExpiry = <<>>
  /\ lastAIGeneration = <<>>
  /\ aiService = FALSE
  /\ now = 0
  /\ lastCall = NoCall
  /\ aiCalls = <<>>
  /\ aiStored = {}
  /\ steps = 0
  /\ memoryCache = <<>>
  /\ memoryExpiry = <<>>
  /\ lastResponse = NoResponse
  /\ tagTable = SeedTagTable
  /\ lastCreate = NoCreate
  /\ JobsInit
  /\ inflight = <<>>
  /\ cacheLog = <<>>

SpecCollab == CollabInit /\ [][Next]_vars

(***************************************************************************)
(* Specification of the background job manager                             *)
(***************************************************************************)
SpecJobs ==
  RoutesInit /\ [][Start \/ StopBegin \/ StopResume \/ JobWake \/ JobWorkCompletes \/ JobWorkRaises \/ JobCancelled]_vars

(***************************************************************************)
(* Properties                                                              *)
(***************************************************************************)
IsRecommend == lastCall.op = "recommend"

ReturnedIds == {lastCall.result.jokes[i].id : i \in 1..Len(lastCall.result.jokes)}

\* C1: every result of get_personalized_recommendations with
\* exclude_seen = true, whether personalized, fallback or cached, contains
\* no joke for which the user has a view, like or skip interaction.
C1_ExclusionInvariant ==
  (IsRecommend /\ lastCall.exclude_seen) => ReturnedIds \cap SeenJokes(interactions, lastCall.user) = {}

\* C2: when a completed update_user_preferences for a user returns, no cache
\* entry of that user is left, and the next get_personalized_recommendations
\* call of that user is not answered from the cache (cache_hit = false).
C2_UpdateInvalidatesCache ==
  /\ (lastCall.op = "update" /\ ~lastCall.raised) =>
       \A limit \in Limits, language \in Languages, exclude_seen \in BOOLEAN :
         CacheKey(lastCall.user, limit, language, exclude_seen) \notin DOMAIN preferenceCache
  /\ (IsRecommend /\ lastCall.prev.op = "update" /\ lastCall.prev.user = lastCall.user /\ ~lastCall.prev.raised) =>
       (lastCall.path # "cache" /\ ~lastCall.result.cache_hit)

\* A request recomputed right after an update that removed a cache entry.
C2_Witness ==
  /\ IsRecommend /\ lastCall.prev.op = "update" /\ lastCall.prev.user = lastCall.user
  /\ ~lastCall.prev.raised /\ lastCall.prev.removed > 0
  /\ lastCall.path = "personalized" /\ ~lastCall.result.cache_hit

C4_NoEmptyListOnError ==
  (IsRecommend /\ lastCall.fired # {} /\ lastCall.result.jokes = <<>>) =>
    TrendingEligible(jokes, interactions, lastCall.language, lastCall.at, TrendingWindow) = {}

\* C5: when the content-based and the collaborative step yield no candidate,
\* the call returns the result of the fallback path: the trending jokes with
\* strategy 'fallback' (and generated jokes), not an empty list.
C5_NoCandidatesFallsBack ==
  (IsRecommend /\ lastCall.path # "cache" /\ lastCall.fired = {} /\ lastCall.candidates = 0) =>
    /\ lastCall.path = "fallback"
    /\ TrendingEligible(jokes, interactions, lastCall.language, lastCall.at, TrendingWindow) # {} =>
         lastCall.result.jokes # <<>>

\* C6: the joke generator is invoked at most once for a user within any
\* cooldown window, whatever the outcome of the earlier invocation.
C6_OneGenerationPerWindow ==
  \A i, k \in 1..Len(aiCalls) :
    (i < k /\ aiCalls[i].user = aiCalls[k].user) => aiCalls[k].at - aiCalls[i].at >= AIGenerationCooldown

\* The user of the last request had jokes generated less than a cooldown
\* before that request.
InCooldownBefore ==
  \E i \in 1..Len(aiCalls) :
    /\ aiCalls[i].user = lastCall.user /\ aiCalls[i].outcome = "generated"
    /\ aiCalls[i].step < lastCall.step /\ lastCall.at - aiCalls[i].at < AIGenerationCooldown

FallbackShortOfLimit ==
  IsRecommend /\ lastCall.path = "fallback" /\ "trending" \notin lastCall.fired /\ Len(lastCall.trending) < lastCall.limit

\* C7: in the fallback path, with fewer trending jokes than limit and the
\* generation in cooldown or raising, the call does not raise and returns
\* exactly the trending jokes found, each with strategy 'fallback', with no
\* generated entry in the list or in the strategy breakdown.
C7_TrendingOnlyWithoutAI ==
  (FallbackShortOfLimit /\ aiService /\ (InCooldownBefore \/ "aigen" \in lastCall.fired)) =>
    /\ ~lastCall.raised
    /\ Len(lastCall.result.jokes) = Len(lastCall.trending)
    /\ \A i \in 1..Len(lastCall.trending) :
         lastCall.result.jokes[i].id = lastCall.trending[i] /\ lastCall.result.jokes[i].strategy = "fallback"
    /\ DOMAIN lastCall.result.strategy_breakdown = {"fallback"}
    /\ lastCall.result.strategy_breakdown["fallback"] = Len(lastCall.trending)

\* A fallback request made during the cooldown that returned the one trending
\* joke for a limit of two.
C7_Witness ==
  FallbackShortOfLimit /\ aiService /\ InCooldownBefore /\ lastCall.ai = "cooldown" /\ Len(lastCall.result.jokes) = 1

\* C8: every generated joke that the fallback path stores and returns was
\* moderated and judged safe, on the personalized and on the generic branch.
C8_StoredJokesModerated ==
  \A r \in aiStored : r.moderated /\ r.verdict = "safe"

\* C9: after every update_user_tag_score call, with any score delta and any
\* interaction weight, every stored score is within [-1, 1].
C9_ScoreBounds ==
  \A k \in DOMAIN userTagScores : -ScoreScale <= userTagScores[k].score /\ userTagScores[k].score <= ScoreScale

\* An update whose unclamped value exceeded 1 and was stored as 1.
C9_Witness ==
  /\ lastCall.op = "score"
  /\ LET row == ScoreRow(lastCall.before, lastCall.user, lastCall.tag)
     IN row.score + LearningRate(row.interaction_count) * lastCall.delta * lastCall.weight > ScoreScale
  /\ userTagScores[<<lastCall.user, lastCall.tag>>].score = ScoreScale

\* C10: update_user_preferences moves the score of each tag of the joke to
\* clamp(old + alpha * base(type) * feedback_strength * tag_confidence) with
\* alpha = min(0.3, 1 / (interaction_count + 1)).
C10_FeedbackStrengthRule ==
  (lastCall.op = "update" /\ "db" \notin lastCall.fired /\ lastCall.type \in InteractionTypes) =>
    \A r \in JokeTagRows(jokeTags, lastCall.joke) :
      LET row == ScoreRow(lastCall.before, lastCall.user, r.tag)
      IN /\ <<lastCall.user, r.tag>> \in DOMAIN userTagScores
         /\ userTagScores[<<lastCall.user, r.tag>>].score =
              ClampScore(row.score + LearningRate(row.interaction_count) * ScoreChange(lastCall.type) * lastCall.strength * r.confidence)

\* The last call was a completed update_user_preferences for a (user, joke,
\* type) that already had an interaction row when the call started.
DuplicateFeedback ==
  /\ lastCall.op = "update" /\ ~lastCall.raised /\ "db" \notin lastCall.fired
  /\ \E r \in lastCall.pre.interactions :
       r.user = lastCall.user /\ r.joke = lastCall.joke /\ r.type = lastCall.type

\* C11: feedback with the same (user, joke, type) a second time is a no-op:
\* the interaction rows, the joke's counters and rating, and the user's tag
\* scores and interaction counts are what they were after the first call.
C11_DuplicateFeedbackNoOp ==
  DuplicateFeedback =>
    /\ interactions = lastCall.pre.interactions
    /\ jokes = lastCall.pre.jokes
    /\ userTagScores = lastCall.before

\* C12: when the feedback endpoint has answered a user's feedback, no
\* CacheService entry of that user is left, and the next recommendations
\* request of that user is not served from an entry written before the
\* feedback.
C12_FeedbackInvalidatesCacheService ==
  /\ (lastResponse.op = "feedback" /\ lastResponse.status = 200) =>
       \A limit \in Limits, language \in Languages, exclude_seen \in BOOLEAN, use_collaborative \in BOOLEAN :
         RecommendationsKey(lastResponse.user, Context(limit, language, exclude_seen, use_collaborative)) \notin DOMAIN memoryCache
  /\ (lastResponse.op = "recommendations" /\ lastResponse.prev.op = "feedback"
        /\ lastResponse.prev.user = lastResponse.user /\ lastResponse.prev.status = 200) =>
       ~(lastResponse.cache_hit /\ lastResponse.entry_step < lastResponse.prev.step)

\* The last call repeats the request of the call before it, which computed
\* and cached its result; no feedback came between the two.
RepeatsCachedRequest ==
  /\ IsRecommend /\ lastCall.prev.op = "recommend" /\ lastCall.prev.path = "personalized"
  /\ lastCall.prev.user = lastCall.user /\ lastCall.prev.limit = lastCall.limit
  /\ lastCall.prev.language = lastCall.language /\ lastCall.prev.exclude_seen = lastCall.exclude_seen
  /\ lastCall.prev.use_collaborative = lastCall.use_collaborative

\* C13: a repeat of a request whose result was computed and cached, with no
\* feedback in between, is answered from the cache (cache_hit = true) less
\* than 5 minutes after the caching and recomputed from 5 minutes on.
C13_CacheTTL ==
  RepeatsCachedRequest =>
    /\ lastCall.at - lastCall.prev.at < CacheTTL => (lastCall.path = "cache" /\ lastCall.result.cache_hit)
    /\ lastCall.at - lastCall.prev.at >= CacheTTL => (lastCall.path # "cache" /\ ~lastCall.result.cache_hit)

\* A repeat exactly 5 minutes after the caching, recomputed.
C13_Witness ==
  RepeatsCachedRequest /\ lastCall.at - lastCall.prev.at = CacheTTL /\ lastCall.path = "personalized"

\* C14: a cached result is returned only to a request whose user, limit,
\* language, exclude_seen and use_collaborative equal those of the request
\* that produced it.
C14_CacheKeyCoversContext ==
  (IsRecommend /\ lastCall.path = "cache") =>
    LET producer == lastCall.producers[CacheKey(lastCall.user, lastCall.limit, lastCall.language, lastCall.exclude_seen)]
    IN /\ producer.user = lastCall.user /\ producer.limit = lastCall.limit
       /\ producer.language = lastCall.language /\ producer.exclude_seen = lastCall.exclude_seen
       /\ producer.use_collaborative = lastCall.use_collaborative

\* C15: in the list returned for limit L, when at least L candidates exist,
\* exactly floor(L * (1 - e)) items carry strategy 'exploit' and are the
\* highest-scoring candidates, and the other items carry 'explore'.
\* The candidate pool is what _get_unseen_jokes_with_tags offers the user (a
\* recommendation request changes neither the tables nor the scores).
C15_EpsilonGreedySplit ==
  LET pool == GetUnseenJokesWithTags(jokes, jokeTags, interactions, lastCall.user, lastCall.language, MinTagConfidence, FALSE)
      score == [j \in DOMAIN jokes |->
                  CalculateExploitationScore(ConfidentTags(jokeTags, j, MinTagConfidence), GetUserPreferences(userTagScores, lastCall.user, FALSE))]
      exploit == {i \in 1..Len(lastCall.result.jokes) : lastCall.result.jokes[i].strategy = "exploit"}
  IN (IsRecommend /\ lastCall.path = "personalized" /\ lastCall.fired = {} /\ Cardinality(pool) >= lastCall.limit) =>
       /\ Cardinality(exploit) = ExploitCount(lastCall.limit)
       /\ \A i \in 1..Len(lastCall.result.jokes) : i \notin exploit => lastCall.result.jokes[i].strategy = "explore"
       /\ \A i \in exploit : \A j \in pool \ {lastCall.result.jokes[k].id : k \in exploit} :
            score[lastCall.result.jokes[i].id] >= score[j]

\* The primary categories that the list handed to the ranker spans.
InputCategories == {lastCall.primary[lastCall.input[i].id] : i \in 1..Len(lastCall.input)} \ {NoCategory}

\* C16: when the candidate list handed to the diversity ranker spans at least
\* 'limit' distinct primary tag categories, no two of the first 'limit' items
\* of the diversified result have the same primary category.
C16_DiversityAcrossCategories ==
  (lastCall.op = "diversify" /\ Cardinality(InputCategories) >= lastCall.limit) =>
    \A i, k \in 1..Min(lastCall.limit, Len(lastCall.result.jokes)) :
      i # k => lastCall.primary[lastCall.result.jokes[i].id] # lastCall.primary[lastCall.result.jokes[k].id]

\* More candidates than 'limit', the two best of them in one category, and a
\* full diversified list.
C16_Witness ==
  /\ lastCall.op = "diversify" /\ Cardinality(InputCategories) >= lastCall.limit
  /\ lastCall.limit >= 2 /\ Len(lastCall.input) > lastCall.limit
  /\ lastCall.primary[1] = lastCall.primary[2] /\ lastCall.primary[1] # NoCategory
  /\ Len(lastCall.result.jokes) = lastCall.limit

\* C17: every joke that the personalized path returns with strategy
\* 'exploit', 'explore' or 'collaborative' is in the requested language, has
\* rating >= 2.0 and has a tag of confidence >= the minimum threshold.
C17_CandidatesRestricted ==
  (IsRecommend /\ lastCall.path = "personalized") =>
    \A i \in 1..Len(lastCall.result.jokes) :
      lastCall.result.jokes[i].strategy \in {"exploit", "explore", "collaborative"} =>
        LET j == lastCall.result.jokes[i].id
        IN /\ jokes[j].language = lastCall.language
           /\ jokes[j].rating >= 2 * RatingScale
           /\ ConfidentTags(jokeTags, j, MinTagConfidence) # {}

\* C18: after any sequence of recorded interactions, every joke with
\* view_count > 0 has rating = round(like_count / view_count * 5, 2) of its
\* current counters.
C18_RatingFollowsCounters ==
  \A j \in DOMAIN jokes :
    jokes[j].view_count > 0 => jokes[j].rating = RoundHalfEven(jokes[j].like_count * 5 * RatingScale, jokes[j].view_count)

\* The last create_tag call named a tag that was in the table.
NameExistedBefore == lastCreate.op = "create_tag" /\ \E r \in lastCreate.before : r.name = lastCreate.name

\* C19: create_tag with a name that already exists returns the id of the
\* existing row and adds no row; the tags table has at most one row per name.
C19_CreateTagIdempotent ==
  /\ \A r1, r2 \in tagTable : r1.name = r2.name => r1 = r2
  /\ NameExistedBefore =>
       /\ ~lastCreate.raised
       /\ \E r \in lastCreate.before : r.name = lastCreate.name /\ r.id = lastCreate.returned
       /\ tagTable = lastCreate.before

\* A second call for a name that an earlier call created, with another category.
C19_Witness ==
  /\ NameExistedBefore
  /\ \E r \in lastCreate.before : /\ r.name = lastCreate.name /\ r \notin SeedTagTable
                                    /\ r.category # lastCreate.category /\ r.id = lastCreate.returned

\* C20: when handle_cold_start_user is given initial preferences for a user
\* without tag scores, every named tag that exists gets a user_tag_scores row
\* whose score is exactly +0.5.
C20_ColdStartInitialScore ==
  (lastCall.op = "cold_start" /\ lastCall.fired = {} /\ (\A k \in DOMAIN lastCall.before : k[1] # lastCall.user)) =>
    LET named == NamedTags(tagTable, lastCall.input)
    IN \A i \in 1..Len(named) :
         /\ <<lastCall.user, named[i]>> \in DOMAIN userTagScores
         /\ userTagScores[<<lastCall.user, named[i]>>].score = ScoreScale \div 2


C22_JobFailuresIsolated ==
  (running /\ stopCalls = <<>>) =>
    \A j \in JobNames :
      /\ j \in DOMAIN jobsMap
      /\ ~TaskDone(tasks[jobsMap[j]])
      /\ ~tasks[jobsMap[j]].cancel_requested
      /\ jobStats[j].errors > 0 => tasks[jobsMap[j]].pc \in {"retry", "work", "sleep"}

\* The preference job raised and is in its next iteration, and the metrics
\* job has completed an iteration meanwhile.
C22_Witness ==
  /\ running /\ stopCalls = <<>>
  /\ jobStats["preference_learning"].errors = 1 /\ jobStats["preference_learning"].runs = 0
  /\ tasks[jobsMap["preference_learning"]].pc = "work"
  /\ jobStats["metrics_calculation"].runs = 1
  /\ tasks[jobsMap["data_cleanup"]].pc = "sleep"

\* C28: whenever no stop() call is suspended (start() never is), either the
\* manager is running and the three registered tasks are exactly the tasks
\* that are alive, or it is not running and no task is registered or alive.
C28_StartStopConsistent ==
  (\A c \in DOMAIN stopCalls : stopCalls[c].pc # "await") =>
    LET alive == {i \in DOMAIN tasks : ~TaskDone(tasks[i])}
    IN \/ running /\ DOMAIN jobsMap = JobNames /\ {jobsMap[j] : j \in JobNames} = alive
       \/ ~running /\ jobsMap = <<>> /\ alive = {}

\* C23: for any candidate list and any limit the diversity ranker returns
\* min(limit, number of candidates) of the candidates, none of them twice.
C23_DiversityLengthExact ==
  lastCall.op = "diversify" =>
    LET out == lastCall.result.jokes
    IN /\ \A i \in 1..Len(out) : \E k \in 1..Len(lastCall.input) : out[i] = lastCall.input[k]
       /\ \A i, k \in 1..Len(out) : out[i].id = out[k].id => i = k
       /\ Len(out) = Min(lastCall.limit, Len(lastCall.input))

\* C24: on the in-memory backend, get_user_session of a user whose session
\* was stored with TTL t, and not invalidated or stored again since, returns
\* the stored value at every time before store time + t and None from then on.
C24_MemoryTTL ==
  (lastResponse.op = "get_session" /\ lastResponse.user \in DOMAIN lastResponse.log) =>
    LET stored == lastResponse.log[lastResponse.user]
    IN lastResponse.returned = IF lastResponse.at < stored.at + stored.ttl THEN stored.data ELSE "None"

\* A get at the very time the entry expires, which returned None.
C24_Witness ==
  /\ lastResponse.op = "get_session" /\ lastResponse.user \in DOMAIN lastResponse.log
  /\ lastResponse.at = lastResponse.log[lastResponse.user].at + lastResponse.log[lastResponse.user].ttl
  /\ lastResponse.returned = "None"

\* C27: invalidate_user_cache(U) on the in-memory backend leaves every entry
\* that is not U's session entry (the entries of other users and the global
\* entries) in the cache with its value and its expiry.
C27_InvalidateOnlyOwnEntries ==
  lastResponse.op = "invalidate" =>
    \A k \in (DOMAIN lastResponse.before) \ {SessionKey(lastResponse.user)} :
      /\ k \in DOMAIN memoryCache /\ memoryCache[k] = lastResponse.before[k]
      /\ k \in DOMAIN memoryExpiry /\ memoryExpiry[k] = lastResponse.expiry_before[k]

\* C29: in every result the service returns, strategy_breakdown[s] is the
\* number of returned jokes with strategy s, for every strategy s.
C29_BreakdownMatchesJokes ==
  (lastCall.op \in {"recommend", "cold_start"} /\ ~lastCall.raised) =>
    LET out == lastCall.result
    IN \A s \in {"exploit", "explore", "collaborative", "fallback", "ai_generated"} :
         Cardinality({i \in 1..Len(out.jokes) : out.jokes[i].strategy = s})
           = IF s \in DOMAIN out.strategy_breakdown THEN out.strategy_breakdown[s] ELSE 0

\* C25: a cache hit of get_personalized_recommendations never returns a
\* result that a request computed before an update of the user's
\* preferences which had completed when the request stored it.
C25_NoStaleHitAfterUpdate ==
  (lastCall.op = "recommend" /\ lastCall.path = "cache") =>
    LET key == CacheKey(lastCall.user, lastCall.limit, lastCall.language, lastCall.exclude_seen)
    IN key \in DOMAIN cacheLog => ~cacheLog[key].outdated

\* C26: of the fallback requests of one user, at most one within a cooldown
\* window gets jokes from the generator: a request that passes the cooldown
\* check records the generation time before another request can pass it.
C26_OneConcurrentGeneration ==
  \A i, k \in 1..Len(aiCalls) :
    (i < k /\ aiCalls[i].user = aiCalls[k].user /\ aiCalls[i].outcome = "generated" /\ aiCalls[k].outcome = "generated") =>
      aiCalls[k].at - aiCalls[i].at >= AIGenerationCooldown


\* C30: after k calls of update_user_tag_score for one user and tag have
\* completed without raising, whatever their interleaving, the table holds
\* the row of that pair and its interaction_count is k.
C30_NoLostUpdate ==
  (lastCall.op = "tag_score" /\ lastCall.input # <<>>) =>
    /\ <<lastCall.user, lastCall.tag>> \in DOMAIN userTagScores
    /\ userTagScores[<<lastCall.user, lastCall.tag>>].interaction_count = Len(lastCall.input)
====
